---- MODULE Spec2Model ----
(***************************************************************************)
(* State-machine model of the woodpecker-nc presence-only modelling        *)
(* pipeline: the grid search of batchMaxEnt with its on-disk training logs *)
(* and cached champion model (src/code/presence_only.py), and the path     *)
(* checks at the entry of the data-acquisition functions.                  *)
(*                                                                         *)
(* Parameter values are modelled as strings ("10", "HINGE", "None"), so    *)
(* that values of different parameters can be compared as Python compares  *)
(* them.  F1 scores are integers on a scale 0..MaxF1, with NegInf below    *)
(* all of them; cutoffs are integers in thousandths (0.5 is 500).          *)
(***************************************************************************)
EXTENDS Integers, Sequences, FiniteSets, TLC

\* ------------------------------------------------------------------ bounds
MaxF1 == 2

\* --------------------------------------------------------------- constants
\* math.inf negated: the score of a row whose F1 divides by zero
NegInf == -1
\* static_params["presence_probability_cutoff"] = 0.5, in thousandths
StaticCutoff == 500

None == "None"

\* ------------------------------------------------------- sequence helpers
RECURSIVE ConcatAll(_)
ConcatAll(ss) == IF Len(ss) = 0 THEN << >> ELSE Head(ss) \o ConcatAll(Tail(ss))

Range(s) == { s[k] : k \in 1..Len(s) }

Contains(s, x) == \E k \in 1..Len(s) : s[k] = x

\* itertools.product(*lists): tuples in lexicographic order of positions
RECURSIVE product(_)
product(lists) ==
    IF Len(lists) = 0 THEN << << >> >>
    ELSE LET h == Head(lists)
             rest == product(Tail(lists))
         IN  ConcatAll([a \in 1..Len(h) |->
                          [b \in 1..Len(rest) |-> <<h[a]>> \o rest[b]]])

\* ------------------------------------------------------------ getAllCombos
\* the keys of parameter_grid, in insertion order
GridKeys == << "number_of_iterations", "basis_expansion_functions",
               "relative_weight", "number_knots", "spatial_thinning",
               "link_function", "thinning_distance_band" >>

\* parameter_grid.values()
values(grid) == [k \in 1..Len(GridKeys) |-> grid[GridKeys[k]]]

\* the comprehension of lines 171-180 and 183-192
no_thinning_combinations(grid) ==
    LET p == product(<< grid["basis_expansion_functions"],
                        grid["relative_weight"],
                        grid["number_knots"],
                        grid["link_function"] >>)
    IN  [k \in 1..Len(p) |->
            << None, p[k][1], p[k][2], p[k][3], "NO_THINNING", p[k][4], None >>]

\* mutant: the product runs over the whole spatial_thinning list
thinning_combinations_all(grid) ==
    product(<< grid["number_of_iterations"],
               grid["basis_expansion_functions"],
               grid["relative_weight"],
               grid["number_knots"],
               grid["spatial_thinning"],
               grid["link_function"],
               grid["thinning_distance_band"] >>)

thinning_combinations(grid) ==
    product(<< grid["number_of_iterations"],
               grid["basis_expansion_functions"],
               grid["relative_weight"],
               grid["number_knots"],
               << "THINNING" >>,
               grid["link_function"],
               grid["thinning_distance_band"] >>)

getAllCombos(grid) ==
    IF ~Contains(grid["spatial_thinning"], "NO_THINNING")
    THEN product(values(grid))
    ELSE IF ~Contains(grid["spatial_thinning"], "THINNING")
    THEN no_thinning_combinations(grid)
    ELSE no_thinning_combinations(grid) \o thinning_combinations(grid)

\* dict(zip(parameter_grid.keys(), combination))
zipParams(combination) ==
    [key \in Range(GridKeys) |->
        combination[CHOOSE k \in 1..Len(GridKeys) : GridKeys[k] = key]]

\* ------------------------------------------------------------------ scoring
F1Values == {NegInf} \cup 0..MaxF1

\* cutoffs of the rows of a sensitivity table, in thousandths
Cutoffs == << 333, 755 >>

\* the data frames scoreFromSensitivityTable can return: one row per cutoff,
\* the F1 of each row being whatever the trained model achieved there
ScoreTables ==
    { [k \in 1..Len(Cutoffs) |-> [cutoff |-> Cutoffs[k], f1 |-> f[k]]] :
        f \in [1..Len(Cutoffs) -> F1Values] }

\* max(score.f1)
maxF1(score) ==
    CHOOSE m \in { score[k].f1 : k \in 1..Len(score) } :
        \A k \in 1..Len(score) : score[k].f1 <= m

\* score.f1.idxmax(): the first row holding the maximum
idxmax(score) ==
    CHOOSE k \in 1..Len(score) :
        /\ score[k].f1 = maxF1(score)
        /\ \A j \in 1..(k - 1) : score[j].f1 # maxF1(score)

\* round(cutoff, 2) on a cutoff in thousandths
round2(c) == ((c + 5) \div 10) * 10

\* ---------------------------------------------------------------- species
\* species_name values of species_df ("Flicker, Northern" and
\* "Flicker (Yellow-shafted), Northern"), as the words around the ", "
Flicker == [last |-> << "Flicker" >>, first |-> << "Northern" >>]
FlickerYS == [last |-> << "Flicker", "Yellow", "shafted" >>,
              first |-> << "Northern" >>]

SpeciesNames == { Flicker, FlickerYS }

\* Bird.formatted_name: name_parts[1] + "_" + name_parts[0], with "()"
\* removed and " " and "-" turned into "_"; a name is its "_"-separated words
formatted_name(name) == name.first \o name.last

FormattedNames == { formatted_name(n) : n \in SpeciesNames }

\* f"{s}_model_log.json"
LogFileName(s) == s \o << "model", "log.json" >>

\* Python's `a in b` on strings, on the word sequences of the names
IsSubstring(a, b) ==
    \E k \in 0..(Len(b) - Len(a)) : SubSeq(b, k + 1, k + Len(a)) = a

\* ------------------------------------------------------------- json files
NumericKeys == { "f1", "cutoff" }

\* json.dump of a list of entries: None is written as null
JsonDump(content) ==
    [k \in 1..Len(content) |->
        [key \in DOMAIN content[k] |->
            IF key \in NumericKeys THEN content[k][key]
            ELSE IF content[k][key] = None THEN "null" ELSE content[k][key]]]

\* json.load: null is read as None
JsonLoad(text) ==
    [k \in 1..Len(text) |->
        [key \in DOMAIN text[k] |->
            IF key \in NumericKeys THEN text[k][key]
            ELSE IF text[k][key] = "null" THEN None ELSE text[k][key]]]

\* a file that does not exist
NoFile == [exists |-> FALSE, text |-> << >>]

\* mutant: the file is rewritten with the new entry alone
logModel_overwrite(params, log_file) ==
    [exists |-> TRUE, text |-> JsonDump(<< params >>)]

logModel(params, log_file) ==
    LET created == IF ~log_file.exists
                   THEN [exists |-> TRUE, text |-> JsonDump(<< >>)]
                   ELSE log_file
        content == JsonLoad(created.text)
    IN  [exists |-> TRUE, text |-> JsonDump(Append(content, params))]

\* mutant: only the first logged entry is compared
checkModelParams_firstOnly(file_dict, params) ==
    \E n \in { k \in 1..Len(file_dict) : k = 1 } :
        LET p == file_dict[n]
        IN  /\ \A key \in DOMAIN params :
                   key \in DOMAIN p => params[key] = p[key]
            /\ \A k \in (DOMAIN p) \ NumericKeys : k \in DOMAIN params

checkModelParams(file_dict, params) ==
    \E n \in 1..Len(file_dict) :
        LET p == file_dict[n]
        IN  /\ \A key \in DOMAIN params :
                   key \in DOMAIN p => params[key] = p[key]
            /\ \A k \in (DOMAIN p) \ NumericKeys : k \in DOMAIN params

\* log_dir maps the formatted name s of each species to the file
\* f"{s}_model_log.json" of the log directory
checkModelLogs(log_dir, params, species) ==
    LET files == { s \in DOMAIN log_dir :
                     /\ log_dir[s].exists
                     /\ IsSubstring(species, LogFileName(s)) }
    IN  IF \E s \in files : checkModelParams(JsonLoad(log_dir[s].text), params)
        THEN FALSE
        ELSE TRUE

\* -------------------------------------------------------- FeederWatch data
\* dataframes are sequences of rows, rows are records of their columns;
\* dates are <<year, month, day>>
Dates == { << 2015, 12, 31 >>, << 2017, 1, 15 >>, << 2018, 6, 1 >>,
           << 2020, 1, 1 >> }

\* the species names in the order Python compares their strings:
\* "Flicker (Yellow-shafted), Northern" < "Flicker, Northern"
NameOrder == << FlickerYS, Flicker >>

NameRank(name) == CHOOSE k \in 1..Len(NameOrder) : NameOrder[k] = name

DateBefore(a, b) ==
    \/ a[1] < b[1]
    \/ a[1] = b[1] /\ a[2] < b[2]
    \/ a[1] = b[1] /\ a[2] = b[2] /\ a[3] < b[3]

\* the woodpecker rows of get_species_codes()
birds ==
    << [species_code |-> "norfli", species_name |-> Flicker,
        family |-> "Picidae (Woodpeckers)"],
       [species_code |-> "yesfli", species_name |-> FlickerYS,
        family |-> "Picidae (Woodpeckers)"] >>

\* a row of the raw FeederWatch table
RawRow(code, sub, date, valid, plus_code) ==
    [loc_id |-> "L1", latitude |-> 358, longitude |-> -786,
     subnational1_code |-> sub, month |-> date[2], day |-> date[3],
     year |-> date[1], species_code |-> code, how_many |-> 1,
     valid |-> valid, plus_code |-> plus_code]

\* line 58
out_names == { "species_code", "species_name", "how_many", "latitude",
               "longitude", "subnational1_code", "date" }

\* mutant: the query does not look at plus_code
query_valid(df, brds) ==
    SelectSeq(df, LAMBDA r :
        /\ r.valid = 1
        /\ \E k \in 1..Len(brds) : brds[k].species_code = r.species_code)

\* line 65: valid == 1 & plus_code != 1 & species_code == @birds.species_code
query(df, brds) ==
    SelectSeq(df, LAMBDA r :
        /\ r.valid = 1
        /\ r.plus_code # 1
        /\ \E k \in 1..Len(brds) : brds[k].species_code = r.species_code)

\* the columns of a species missing from birds after a left join
NaNSpecies == [species_name |-> [last |-> << >>, first |-> << >>],
               family |-> "NaN"]

\* line 69: pd.merge(data, birds, how='left', on='species_code')
merge(df, brds) ==
    ConcatAll([k \in 1..Len(df) |->
        LET r == df[k]
            matches == SelectSeq(brds, LAMBDA b : b.species_code = r.species_code)
            joined(b) == [c \in DOMAIN r \cup { "species_name", "family" } |->
                            IF c \in DOMAIN r THEN r[c] ELSE b[c]]
        IN  IF Len(matches) = 0
            THEN << joined(NaNSpecies) >>
            ELSE [j \in 1..Len(matches) |-> joined(matches[j])]])

\* lines 71-73: the date column
to_datetime(df) ==
    [k \in 1..Len(df) |->
        [c \in DOMAIN df[k] \cup { "date" } |->
            IF c = "date" THEN << df[k].year, df[k].month, df[k].day >>
            ELSE df[k][c]]]

\* the order of sort_values(by=['date', 'species_name'])
RowBefore(a, b) ==
    \/ DateBefore(a.date, b.date)
    \/ a.date = b.date /\ NameRank(a.species_name) < NameRank(b.species_name)

RECURSIVE sort_values(_)
sort_values(df) ==
    IF Len(df) = 0 THEN << >>
    ELSE LET rest == sort_values(SubSeq(df, 1, Len(df) - 1))
             r == df[Len(df)]
             n == Cardinality({ k \in 1..Len(rest) : ~RowBefore(r, rest[k]) })
         IN  SubSeq(rest, 1, n) \o << r >> \o SubSeq(rest, n + 1, Len(rest))

\* lines 61-76 (sub_national_code is a list in every call modelled)
clean_fw_data(df, brds, codes) ==
    LET queried == query(df, brds)
        located == SelectSeq(queried, LAMBDA r : Contains(codes, r.subnational1_code))
        dated == to_datetime(merge(located, brds))
        kept == [k \in 1..Len(dated) |-> [c \in out_names |-> dated[k][c]]]
    IN  sort_values(kept)

\* a date as to_csv writes it
IsoDate(d) ==
    CASE d = << 2015, 12, 31 >> -> "2015-12-31"
      [] d = << 2017, 1, 15 >> -> "2017-01-15"
      [] d = << 2018, 6, 1 >> -> "2018-06-01"
      [] d = << 2020, 1, 1 >> -> "2020-01-01"

\* pd.to_datetime of a date read from a csv file
ParseDate(text) == CHOOSE d \in Dates : IsoDate(d) = text

to_csv(df) == [k \in 1..Len(df) |-> [df[k] EXCEPT !.date = IsoDate(@)]]

\* pd.read_csv followed by out['date'] = pd.to_datetime(out.date)
read_csv(text) == [k \in 1..Len(text) |-> [text[k] EXCEPT !.date = ParseDate(@)]]

\* lines 149-151: time frames of the FeederWatch site, as handed in as tfs
tfs == << "2011_2015", "2016_2020" >>

\* the table behind the url of a time frame
Remote(tf) ==
    IF tf = "2011_2015"
    THEN << RawRow("norfli", "US-NC", << 2015, 12, 31 >>, 1, 0) >>
    ELSE << RawRow("norfli", "US-NC", << 2020, 1, 1 >>, 1, 0),
            RawRow("yesfli", "US-NC", << 2018, 6, 1 >>, 1, 0),
            RawRow("norfli", "US-VA", << 2018, 6, 1 >>, 1, 0),
            RawRow("norfli", "US-NC", << 2017, 1, 15 >>, 1, 0),
            RawRow("amecro", "US-NC", << 2017, 1, 15 >>, 1, 0),
            RawRow("norfli", "US-NC", << 2018, 6, 1 >>, 0, 0) >>

\* a gzipped file that does not exist
NoGz == [exists |-> FALSE, text |-> << >>]

\* lines 142-143
filterYears(df, min_year, max_year) ==
    SelectSeq(SelectSeq(df, LAMBDA r : r.date[1] >= min_year),
              LAMBDA r : r.date[1] <= max_year)

\* the arguments of the main script (woodpeckers_nc.py lines 81-89)
MainFwArgs == [min_year |-> 2017, max_year |-> 2019, save_ |-> TRUE]

\* ----------------------------------------------------------- batchMaxEnt
\* the parameter grid searched by the model: the grid of lines 360-368 cut
\* down to one value per list, keeping both spatial_thinning settings
parameter_grid ==
    [ number_of_iterations |-> << "10" >>,
      basis_expansion_functions |-> << "HINGE" >>,
      relative_weight |-> << "35" >>,
      number_knots |-> << "10" >>,
      spatial_thinning |-> << "NO_THINNING", "THINNING" >>,
      link_function |-> << "CLOGLOG" >>,
      thinning_distance_band |-> << "1000 Meters" >> ]

all_combinations == getAllCombos(parameter_grid)

static_params == [presence_probability_cutoff |-> StaticCutoff]

OutputKeys == { "output_trained_features", "output_trained_raster",
                "output_response_curve_table", "output_sensitivity_table",
                "output_pred_features", "output_pred_raster" }

\* the outputs dictionary of lines 395-402 and 476-483, without the species
outputs ==
    [k \in OutputKeys |->
        CASE k = "output_trained_features" -> "NC_Trained_Features"
          [] k = "output_trained_raster" -> "NC_Trained_Raster"
          [] k = "output_response_curve_table" -> "NC_Response_Curve"
          [] k = "output_sensitivity_table" -> "NC_Sensitivity_Table"
          [] OTHER -> None]

\* runMaxEnt: the geodatabase items PresenceOnlyPrediction writes for
\* species s, and the cutoff it is run with
runMaxEnt(static, params, outs, output, s) ==
    LET used == [k \in OutputKeys |->
                    IF ~output /\ k # "output_sensitivity_table"
                    THEN None ELSE outs[k]]
    IN  [ written |-> { << s, used[k] >> : k \in { x \in OutputKeys : used[x] # None } },
          presence_probability_cutoff |-> static["presence_probability_cutoff"],
          params |-> params ]

NoCombination == << >>

NoCache == [exists |-> FALSE, f1 |-> 0, cutoff |-> 0,
            combination |-> NoCombination,
            params |-> << >>,
            other_input_values |-> static_params]

NoRun == [done |-> FALSE, params |-> << >>,
          presence_probability_cutoff |-> 0]

VARIABLES
    dataPathExists,   \* os.path.exists(data_path)
    wspaceExists,     \* os.path.exists(wspace)
    species_df,       \* species_df.species_name.unique(), in order
    dirs,             \* paths created under data_path, as their components
    env,              \* arcpy.env: workspace set, overwriteOutput, cellSize
    gdb,              \* items of the geodatabase: <<formatted name, item>>
    logFile,          \* model_training_logs/<s>_model_log.json per s
    cacheFile,        \* model_data/<s>_model_data.pickle per s
    pc,               \* position of the running batchMaxEnt, or "idle"
    lastStep,         \* history: the step of batchMaxEnt taken last
    spIdx,            \* index in species_df of the species being modelled
    i,                \* index in all_combinations of the grid search
    best_combination,
    best_evaluation_metric,
    cur,              \* f1, cutoff, params of the model just trained
    raised,           \* how the last batchMaxEnt call ended
    trained,          \* history: <<combination, f1>> trained for this species in this run
    skipped,          \* history: combinations skipped for this species in this run
    cacheAtStart,     \* history: the species' pickle file when its grid search began
    logAtStart,       \* history: the species' log file when its grid search began
    finalRun,         \* history: the last final output run per species
    fwFileExists,     \* os.path.exists(os.path.join(data_path, fw_file))
    downloads,        \* the archives fetched so far
    grid,             \* the parameter grid handed to getAllCombos
    combos,           \* what getAllCombos returned for it
    lastCall,         \* the function called last
    data,             \* clean_fw_data: the dataframe handed in
    sub_national_code, \* clean_fw_data: the list of codes handed in
    cleaned,          \* clean_fw_data: what it returned
    fwFile,           \* the rows of the final FeederWatch csv file
    gzFiles,          \* FW_<tf>_<suffix>.csv.gz per time frame
    fwPc,             \* position of the running getFeedWatcherData, or "idle"
    fwArgs,           \* its arguments min_year, max_year and save_
    tfIdx,            \* its index in tfs
    df_lis,           \* its list of dataframes
    out,              \* the dataframe it returned last
    fetched,          \* history: the time frames it read from the url
    fromDisk,         \* history: the time frames it read from their gz file
    zips,             \* the zip files under weather/
    wPc,              \* position of the running getWeatherData, or "idle"
    wIdx,             \* its index in the archives, then in vars
    wStep,            \* how far it is with the archive at wIdx
    wOp,              \* how far it is with the rasters of the variable at wIdx
    wFetched,         \* history: the archives it downloaded
    wCreated,         \* history: the rasters it saved
    wResult,          \* the list it returned
    projectExists,    \* os.path.exists(project_path)
    output_folder,    \* the output_folder argument of the last outputMaps call
    pdfs,             \* the exported pdf files: << folder, formatted name, item >>
    existing_fcs,     \* the feature classes listed for batchBirdProcessing
    bPc,              \* position of the running batchBirdProcessing, or "idle"
    bOp,              \* its index in the steps of the base feature class
    bIdx,             \* its index in the species of fw_df
    fcCreated,        \* history: the feature classes it created, in order
    cmpFileDict,      \* the file_dict argument of checkModelParams
    cmpParams,        \* its params argument
    cmpResult,        \* what it returned, or "none"
    logTorn,          \* the species whose log file holds no complete JSON text
    pending,          \* logModel's content between open(log_file, "w") and json.dump
    savedLayers,      \* the layers of the map "Map" in the saved project
    layers,           \* m.listLayers() of the project createMapAndExport opened
    mPc,              \* position of the running createMapAndExport, or "idle"
    mRasters,         \* brd_rasters.keys(), in order
    mIdx,             \* its index in mRasters
    l_idx,            \* index in layers of the layer of the raster, or 0
    exported,         \* history: the rasters exported, with the layers visible then
    sensTable,        \* the rows of the sensitivity table read by the cursor
    scoreDf,          \* the data frame scoreFromSensitivityTable returned
    bestRow           \* f1 and cutoff of lines 418-420

vars == << dataPathExists, wspaceExists, species_df, dirs, env, gdb, logFile,
           cacheFile, pc, lastStep, spIdx, i, best_combination,
           best_evaluation_metric, cur, raised, trained, skipped,
           cacheAtStart, logAtStart, finalRun, fwFileExists, downloads, grid,
           combos, lastCall, data, sub_national_code, cleaned, fwFile,
           gzFiles, fwPc, fwArgs, tfIdx, df_lis, out, fetched, fromDisk,
           zips, wPc, wIdx, wStep, wOp, wFetched, wCreated, wResult,
           projectExists, output_folder, pdfs, existing_fcs, bPc, bOp, bIdx,
           fcCreated, cmpFileDict, cmpParams, cmpResult, logTorn, pending,
           savedLayers, layers, mPc, mRasters, mIdx, l_idx, exported,
           sensTable, scoreDf, bestRow >>

\* clean_fw_data's call and the state of getFeedWatcherData
cleanVars == << data, sub_national_code, cleaned >>
fwLocals == << fwPc, fwArgs, tfIdx, df_lis, out, fetched, fromDisk >>
fwVars == << fwFile, gzFiles, fwLocals >>
\* what only the functions of the later sections touch
weatherLocals == << wPc, wIdx, wStep, wOp, wFetched, wCreated, wResult >>
weatherVars == << zips, weatherLocals >>
mapVars == << projectExists, output_folder, pdfs >>
birdVars == << existing_fcs, bPc, bOp, bIdx, fcCreated >>
paramVars == << cmpFileDict, cmpParams, cmpResult >>
logVars == << logTorn, pending >>
layerVars == << savedLayers, layers, mPc, mRasters, mIdx, l_idx, exported >>
scoreVars == << sensTable, scoreDf, bestRow >>
detail == << cleanVars, fwVars, weatherVars, mapVars, birdVars, paramVars,
            logVars, layerVars, scoreVars >>

\* what batchMaxEnt never touches
inputs == << dataPathExists, wspaceExists, species_df, fwFileExists, downloads,
             grid, combos, detail >>
\* what no step of a running batchMaxEnt touches
fixed == << inputs, lastCall >>
loopVars == << spIdx, i, best_combination, best_evaluation_metric, cur >>
history == << trained, skipped, cacheAtStart, logAtStart >>

NoCur == [f1 |-> 0, cutoff |-> 0, params |-> << >>, combination |-> NoCombination]

\* the formatted name of the species being modelled
s == formatted_name(species_df[spIdx])

\* a data directory and a geodatabase nothing has been run on yet
\* presence_only_mapping.py line 92: the layers the hiding loop leaves alone
Basemaps == { << << >>, "World Terrain Reference" >>, << << >>, "World Terrain Base" >>,
              << << >>, "World Hillshade" >> }

\* the map "Map" of the project as it is handed out: the reference layer on
\* top, the state boundary, and the two other basemap layers
DefaultMap ==
    << [name |-> << << >>, "World Terrain Reference" >>, visible |-> TRUE],
       [name |-> << << >>, "nc_state_boundary" >>, visible |-> TRUE],
       [name |-> << << >>, "World Terrain Base" >>, visible |-> TRUE],
       [name |-> << << >>, "World Hillshade" >>, visible |-> TRUE] >>

Fresh ==
    /\ dirs = { }
    /\ env = [workspace |-> FALSE, overwriteOutput |-> FALSE, cellSize |-> "MAXOF"]
    /\ gdb = { }
    /\ logFile = [n \in FormattedNames |-> NoFile]
    /\ cacheFile = [n \in FormattedNames |-> NoCache]
    /\ pc = "idle"
    /\ lastStep = "none"
    /\ spIdx = 1
    /\ i = 1
    /\ best_combination = NoCombination
    /\ best_evaluation_metric = 0
    /\ cur = NoCur
    /\ raised = "none"
    /\ trained = << >>
    /\ skipped = { }
    /\ cacheAtStart = NoCache
    /\ logAtStart = NoFile
    /\ finalRun = [n \in FormattedNames |-> NoRun]
    /\ downloads = { }
    /\ lastCall = "none"
    /\ data = << >>
    /\ sub_national_code = << >>
    /\ cleaned = << >>
    /\ fwFile = << >>
    /\ gzFiles = [tf \in Range(tfs) |-> NoGz]
    /\ fwPc = "idle"
    /\ fwArgs = MainFwArgs
    /\ tfIdx = 1
    /\ df_lis = << >>
    /\ out = << >>
    /\ fetched = { }
    /\ fromDisk = { }
    /\ zips = { }
    /\ wPc = "idle"
    /\ wIdx = 1
    /\ wStep = "check"
    /\ wOp = 0
    /\ wFetched = { }
    /\ wCreated = { }
    /\ wResult = << >>
    /\ output_folder = << "data", "maps" >>
    /\ pdfs = { }
    /\ existing_fcs = { }
    /\ bPc = "idle"
    /\ bOp = 0
    /\ bIdx = 1
    /\ fcCreated = << >>
    /\ cmpResult = "none"
    /\ logTorn = { }
    /\ pending = << >>
    /\ savedLayers = DefaultMap
    /\ layers = << >>
    /\ mPc = "idle"
    /\ mRasters = << >>
    /\ mIdx = 1
    /\ l_idx = 0
    /\ exported = << >>
    /\ sensTable = << >>
    /\ scoreDf = << >>
    /\ bestRow = << >>

Init ==
    /\ Fresh
    /\ projectExists = TRUE
    /\ cmpFileDict = << >>
    /\ cmpParams = << >>
    /\ dataPathExists \in BOOLEAN
    /\ wspaceExists \in BOOLEAN
    /\ species_df \in { << Flicker, FlickerYS >>, << FlickerYS, Flicker >> }
    /\ fwFileExists = TRUE
    /\ grid = parameter_grid
    /\ combos = << >>

\* mutant: the trained raster is looked up among the feature classes
alreadyModelled_raster(items, n) == FALSE

\* line 332: f"{s}_NC_Trained_Features" in arcpy.ListFeatureClasses()
alreadyModelled(items, n) == << n, "NC_Trained_Features" >> \in items

\* mutant: the score is compared with the initial 0.0, not with the champion
beatsChampion_positive(f1, best) == f1 > 0

\* mutant: a tie replaces the champion
beatsChampion_ties(f1, best) == f1 >= best

\* line 437: f1 > best_evaluation_metric
beatsChampion(f1, best) == f1 > best

\* the locals of a batchMaxEnt call that has ended
LocalsGone ==
    /\ spIdx' = 1
    /\ i' = 1
    /\ best_combination' = NoCombination
    /\ best_evaluation_metric' = 0
    /\ cur' = NoCur
    /\ trained' = << >>
    /\ skipped' = { }
    /\ cacheAtStart' = NoCache
    /\ logAtStart' = NoFile

\* ---------------------------------------------------------------- actions
\* lines 304-323: the path checks, the environment settings and the
\* creation of the model output directories
batchMaxEnt ==
    /\ pc = "idle"
    /\ lastStep' = "batchMaxEnt"
    /\ lastCall' = "batchMaxEnt"
    /\ IF ~dataPathExists \/ ~wspaceExists
       THEN /\ raised' = "FileNotFoundError"
            /\ UNCHANGED << dirs, env, pc, spIdx >>
       ELSE /\ raised' = "none"
            /\ env' = [env EXCEPT !.workspace = TRUE, !.overwriteOutput = TRUE]
            /\ dirs' = dirs \cup { << "model_data" >>,
                                   << "model_data", "model_training_logs" >> }
            /\ pc' = "species"
            /\ spIdx' = 1
    /\ UNCHANGED << inputs, gdb, logFile, cacheFile, i, best_combination,
                    best_evaluation_metric, cur, history, finalRun >>

\* lines 331-337: the species already has trained features in the geodatabase
SkipSpecies ==
    /\ pc = "species"
    /\ lastStep' = "SkipSpecies"
    /\ spIdx <= Len(species_df)
    /\ alreadyModelled(gdb, s)
    /\ spIdx' = spIdx + 1
    /\ UNCHANGED << fixed, dirs, env, gdb, logFile, cacheFile, pc, i,
                    best_combination, best_evaluation_metric, cur, raised,
                    history, finalRun >>

\* lines 338-387: initialise the champion from the cached pickle, if any
BeginSpecies ==
    /\ pc = "species"
    /\ lastStep' = "BeginSpecies"
    /\ spIdx <= Len(species_df)
    /\ ~alreadyModelled(gdb, s)
    /\ IF cacheFile[s].exists
       THEN /\ best_combination' = cacheFile[s].combination
            /\ best_evaluation_metric' = cacheFile[s].f1
       ELSE /\ best_combination' = NoCombination
            /\ best_evaluation_metric' = 0
    /\ i' = 1
    /\ pc' = "grid"
    /\ trained' = << >>
    /\ skipped' = { }
    /\ cacheAtStart' = cacheFile[s]
    /\ logAtStart' = logFile[s]
    /\ UNCHANGED << fixed, dirs, env, gdb, logFile, cacheFile, spIdx,
                    cur, raised, finalRun >>

\* lines 390-394, checkModelLogs false: the combination is not trained
SkipCombination ==
    /\ pc = "grid"
    /\ lastStep' = "SkipCombination"
    /\ i <= Len(all_combinations)
    /\ ~checkModelLogs(logFile, zipParams(all_combinations[i]), s)
    /\ i' = i + 1
    /\ skipped' = skipped \cup { all_combinations[i] }
    /\ UNCHANGED << fixed, dirs, env, gdb, logFile, cacheFile, pc, spIdx,
                    best_combination, best_evaluation_metric, cur,
                    raised, trained, cacheAtStart, logAtStart, finalRun >>

\* lines 394-434: train the combination, score it and log it
TrainCombination ==
    /\ pc = "grid"
    /\ lastStep' = "TrainCombination"
    /\ i <= Len(all_combinations)
    /\ LET combination == all_combinations[i]
           params == zipParams(combination)
       IN  /\ checkModelLogs(logFile, params, s)
           /\ \E score \in ScoreTables :
                LET run == runMaxEnt(static_params, params, outputs, FALSE, s)
                    f1 == maxF1(score)
                    cutoff == score[idxmax(score)].cutoff
                    logged == [k \in DOMAIN params \cup { "f1", "cutoff" } |->
                                 IF k = "f1" THEN f1
                                 ELSE IF k = "cutoff" THEN round2(cutoff)
                                 ELSE params[k]]
                IN  \* the sensitivity table is written, read and deleted
                    /\ gdb' = (gdb \cup run.written) \ { << s, "NC_Sensitivity_Table" >> }
                    /\ logFile' = [logFile EXCEPT ![s] = logModel(logged, logFile[s])]
                    /\ cur' = [f1 |-> f1, cutoff |-> cutoff, params |-> logged,
                               combination |-> combination]
                    /\ trained' = Append(trained, << combination, f1 >>)
    /\ pc' = "logged"
    /\ UNCHANGED << fixed, dirs, env, cacheFile, spIdx, i,
                    best_combination, best_evaluation_metric, raised, skipped,
                    cacheAtStart, logAtStart, finalRun >>

\* lines 436-456: the trained model becomes the champion and is pickled
UpdateChampion ==
    /\ pc = "logged"
    /\ lastStep' = "UpdateChampion"
    /\ beatsChampion(cur.f1, best_evaluation_metric)
    /\ best_evaluation_metric' = cur.f1
    /\ best_combination' = cur.combination
    /\ cacheFile' = [cacheFile EXCEPT ![s] =
                        [exists |-> TRUE, f1 |-> cur.f1, cutoff |-> cur.cutoff,
                         combination |-> cur.combination, params |-> cur.params,
                         other_input_values |-> static_params]]
    /\ i' = i + 1
    /\ pc' = "grid"
    /\ cur' = NoCur
    /\ UNCHANGED << fixed, dirs, env, gdb, logFile, spIdx, raised,
                    history, finalRun >>

\* line 437 false: the champion stays
KeepChampion ==
    /\ pc = "logged"
    /\ lastStep' = "KeepChampion"
    /\ ~beatsChampion(cur.f1, best_evaluation_metric)
    /\ i' = i + 1
    /\ pc' = "grid"
    /\ cur' = NoCur
    /\ UNCHANGED << fixed, dirs, env, gdb, logFile, cacheFile, spIdx,
                    best_combination, best_evaluation_metric, raised, history,
                    finalRun >>

\* lines 458-487: read the pickle and run the champion with output = True
FinalOutput ==
    /\ pc = "grid"
    /\ lastStep' = "FinalOutput"
    /\ i > Len(all_combinations)
    /\ cacheFile[s].exists
    /\ LET cached_model_data == cacheFile[s]
           run == runMaxEnt(cached_model_data.other_input_values,
                            cached_model_data.params, outputs, TRUE, s)
       IN  /\ gdb' = gdb \cup run.written
           /\ finalRun' = [finalRun EXCEPT ![s] =
                             [done |-> TRUE, params |-> run.params,
                              presence_probability_cutoff |->
                                  run.presence_probability_cutoff]]
    /\ env' = [env EXCEPT !.cellSize = "MAXOF"]
    /\ spIdx' = spIdx + 1
    /\ pc' = "species"
    /\ UNCHANGED << fixed, dirs, logFile, cacheFile, i,
                    best_combination, best_evaluation_metric, cur, raised,
                    history >>

\* line 462: open() of a pickle file that does not exist
FinalOutputNoPickle ==
    /\ pc = "grid"
    /\ lastStep' = "FinalOutputNoPickle"
    /\ i > Len(all_combinations)
    /\ ~cacheFile[s].exists
    /\ raised' = "FileNotFoundError"
    /\ pc' = "idle"
    /\ LocalsGone
    /\ UNCHANGED << fixed, dirs, env, gdb, logFile, cacheFile, finalRun >>

\* lines 489-492: all species done
Finish ==
    /\ pc = "species"
    /\ lastStep' = "Finish"
    /\ spIdx > Len(species_df)
    /\ env' = [env EXCEPT !.overwriteOutput = FALSE]
    /\ pc' = "idle"
    /\ LocalsGone
    /\ UNCHANGED << fixed, dirs, gdb, logFile, cacheFile, raised,
                    finalRun >>

\* the run is interrupted (the script is stopped) between two steps
Interrupt ==
    /\ pc \in { "species", "grid", "logged" }
    /\ lastStep' = "Interrupt"
    /\ pc' = "idle"
    /\ raised' = "KeyboardInterrupt"
    /\ LocalsGone
    /\ UNCHANGED << fixed, dirs, env, gdb, logFile, cacheFile, finalRun >>

\* between runs the user deletes a species' trained features from the
\* geodatabase, as the message of lines 333-335 asks for
DeleteTrainedFeatures ==
    /\ pc = "idle"
    /\ lastStep' = "DeleteTrainedFeatures"
    /\ \E n \in FormattedNames :
          /\ << n, "NC_Trained_Features" >> \in gdb
          /\ gdb' = gdb \ { << n, "NC_Trained_Features" >> }
    /\ UNCHANGED << fixed, dirs, env, logFile, cacheFile, pc, loopVars,
                    raised, history, finalRun >>

Next ==
    \/ batchMaxEnt
    \/ SkipSpecies
    \/ BeginSpecies
    \/ SkipCombination
    \/ TrainCombination
    \/ UpdateChampion
    \/ KeepChampion
    \/ FinalOutput
    \/ FinalOutputNoPickle
    \/ Finish
    \/ Interrupt
    \/ DeleteTrainedFeatures

Spec == Init /\ [][Next]_vars

\* ------------------------------------------------- data set-up functions
\* a geodatabase item that belongs to no species
Item(name) == << << >>, name >>

\* Bird.fc_name: f"{_prefix}{formatted_name}_NC"
fc_name(n) == << n, "FW_NC" >>

Vars3 == { "ppt", "tmax", "tmin" }
Periods == { "2017", "2018", "2019" } \cup
           { "01", "02", "03", "04", "05", "06", "07", "08", "09", "10", "11", "12" }

\* the extracted directory weather/<v>_<p> of one archive
WeatherDir(v, p) == << "weather", v, p >>

WeatherRasters == { Item("avgPrecip_all_years"), Item("minTemp_all_years"),
                    Item("maxTemp_all_years") }

\* mutant: the workspace path is not checked
pathsMissing_dataOnly == ~dataPathExists

\* the checks every function starts with
pathsMissing == ~dataPathExists \/ ~wspaceExists

SetupFrame ==
    UNCHANGED << dataPathExists, wspaceExists, species_df, fwFileExists, grid,
                 combos, logFile, cacheFile, pc, lastStep, loopVars,
                 history, finalRun, detail >>

getNCBoundary ==
    /\ pc = "idle"
    /\ lastCall' = "getNCBoundary"
    /\ IF pathsMissing
       THEN /\ raised' = "FileNotFoundError"
            /\ UNCHANGED << dirs, env, gdb, downloads >>
       ELSE /\ raised' = "none"
            /\ env' = [env EXCEPT !.workspace = TRUE]
            /\ dirs' = dirs \cup { << "nc_state_boundary" >>,
                                   << "nc_state_boundary", "tl_2018_37_cousub.shp" >> }
            /\ downloads' =
                 IF << "nc_state_boundary", "tl_2018_37_cousub.shp" >> \in dirs
                 THEN downloads
                 ELSE downloads \cup { << "tl_2018_37_cousub.zip" >> }
            /\ gdb' = gdb \cup { Item("nc_state_boundary") }
    /\ SetupFrame

batchBirdProcessing ==
    /\ pc = "idle"
    /\ lastCall' = "batchBirdProcessing"
    /\ IF pathsMissing \/ ~fwFileExists
       THEN /\ raised' = "FileNotFoundError"
            /\ UNCHANGED << dirs, env, gdb, downloads >>
       ELSE /\ raised' = "none"
            /\ env' = [env EXCEPT !.workspace = TRUE]
            /\ LET listed == gdb
                   species_fcs == { fc_name(formatted_name(species_df[k])) :
                                      k \in 1..Len(species_df) }
               IN  gdb' = gdb \cup ({ Item("FW_woodpeckers_NC_NC") } \ listed)
                              \cup (species_fcs \ listed)
            /\ UNCHANGED << dirs, downloads >>
    /\ SetupFrame

getLandCoverData ==
    /\ pc = "idle"
    /\ lastCall' = "getLandCoverData"
    /\ IF pathsMissing
       THEN /\ raised' = "FileNotFoundError"
            /\ UNCHANGED << dirs, env, gdb, downloads >>
       ELSE /\ raised' = "none"
            /\ env' = [env EXCEPT !.workspace = TRUE]
            /\ dirs' = dirs \cup { << "NC_Land_Cover" >> }
            /\ downloads' = IF << "NC_Land_Cover" >> \in dirs
                            THEN downloads
                            ELSE downloads \cup { << "NC_NLCD2019only.zip" >> }
            /\ gdb' = gdb \cup { Item("nc_nlcd2019") }
    /\ SetupFrame

getDEMData ==
    /\ pc = "idle"
    /\ lastCall' = "getDEMData"
    /\ IF pathsMissing
       THEN /\ raised' = "FileNotFoundError"
            /\ UNCHANGED << dirs, env, gdb, downloads >>
       ELSE /\ raised' = "none"
            /\ env' = [env EXCEPT !.workspace = TRUE]
            /\ dirs' = dirs \cup { << "DEM" >>, << "DEM", "nc250" >> }
            /\ downloads' = IF << "DEM", "nc250" >> \in dirs
                            THEN downloads
                            ELSE downloads \cup { << "nc250.zip" >> }
            /\ gdb' = gdb \cup { Item("nc250") }
    /\ SetupFrame

getWeatherData ==
    /\ pc = "idle"
    /\ lastCall' = "getWeatherData"
    /\ IF pathsMissing
       THEN /\ raised' = "FileNotFoundError"
            /\ UNCHANGED << dirs, env, gdb, downloads >>
       ELSE /\ raised' = "none"
            /\ dirs' = dirs \cup { << "weather" >> }
                            \cup { WeatherDir(v, p) : v \in Vars3, p \in Periods }
            /\ downloads' = downloads \cup
                              { << "prism", a[2], a[3] >> :
                                  a \in { WeatherDir(v, p) : v \in Vars3, p \in Periods } \ dirs }
            /\ env' = [env EXCEPT !.workspace = TRUE,
                                  !.overwriteOutput =
                                      IF WeatherRasters \subseteq gdb THEN @ ELSE FALSE]
            /\ gdb' = gdb \cup WeatherRasters
    /\ SetupFrame

\* ------------------------------------------------------- specifications
\* batchMaxEnt alone, run and re-run over one data directory
\* (Spec is defined above)

\* the set-up functions and batchMaxEnt, for one species
InitSetup ==
    /\ Fresh
    /\ projectExists = TRUE
    /\ cmpFileDict = << >>
    /\ cmpParams = << >>
    /\ dataPathExists \in BOOLEAN
    /\ wspaceExists \in BOOLEAN
    /\ species_df = << Flicker >>
    /\ fwFileExists \in BOOLEAN
    /\ grid = parameter_grid
    /\ combos = << >>

NextSetup ==
    \/ getNCBoundary
    \/ batchBirdProcessing
    \/ getLandCoverData
    \/ getDEMData
    \/ getWeatherData
    \/ Next

SpecSetup == InitSetup /\ [][NextSetup]_vars

\* ------------------------------------------------ getAllCombos on its own
MaxListLen == 2

Min(a, b) == IF a < b THEN a ELSE b

\* the values of lines 361-367, with the ones commented out there
ValueLists ==
    [ number_of_iterations |-> << "10", "20" >>,
      basis_expansion_functions |-> << "HINGE", "LINEAR", "THRESHOLD", "QUADRATIC" >>,
      relative_weight |-> << "35", "50", "100" >>,
      number_knots |-> << "10", "50" >>,
      link_function |-> << "CLOGLOG", "LOGISTIC" >>,
      thinning_distance_band |-> << "1000 Meters", "2500 Meters", "5000 Meters" >> ]

Prefixes(list) == { SubSeq(list, 1, n) : n \in 1..Min(MaxListLen, Len(list)) }

ThinningLists == { << "NO_THINNING" >>, << "THINNING" >>,
                   << "NO_THINNING", "THINNING" >>,
                   << "THINNING", "NO_THINNING" >> }

Grids ==
    [ number_of_iterations : Prefixes(ValueLists["number_of_iterations"]),
      basis_expansion_functions : Prefixes(ValueLists["basis_expansion_functions"]),
      relative_weight : Prefixes(ValueLists["relative_weight"]),
      number_knots : Prefixes(ValueLists["number_knots"]),
      spatial_thinning : ThinningLists,
      link_function : Prefixes(ValueLists["link_function"]),
      thinning_distance_band : Prefixes(ValueLists["thinning_distance_band"]) ]

InitCombos ==
    /\ Fresh
    /\ projectExists = TRUE
    /\ cmpFileDict = << >>
    /\ cmpParams = << >>
    /\ dataPathExists = TRUE
    /\ wspaceExists = TRUE
    /\ species_df = << Flicker >>
    /\ fwFileExists = TRUE
    /\ grid \in Grids
    /\ combos = << >>

CallGetAllCombos ==
    /\ combos = << >>
    /\ combos' = getAllCombos(grid)
    /\ UNCHANGED << dataPathExists, wspaceExists, species_df, fwFileExists,
                    downloads, grid, dirs, env, gdb, logFile, cacheFile, pc,
                    lastStep, loopVars, raised, history, finalRun, lastCall,
                    detail >>

NextCombos == CallGetAllCombos

SpecCombos == InitCombos /\ [][NextCombos]_vars

\* ------------------------------------------------------ getFeedWatcherData
\* what the functions of this section leave alone
batchVars == << species_df, dirs, env, gdb, logFile, cacheFile, pc, lastStep,
                loopVars, history, finalRun, downloads, grid, combos,
                weatherVars, mapVars, paramVars, logVars, layerVars, scoreVars >>

FwArgs == [min_year : { 2017, 2018 }, max_year : { 2018, 2019 }, save_ : BOOLEAN]

\* mutant: a saved time frame is not looked for
gzCached_never(files, tf) == FALSE

\* line 120: os.path.isfile(out_file)
gzCached(files, tf) == files[tf].exists

\* lines 106-115: the final file is read if it exists, or the loop begins
getFeedWatcherData(args) ==
    /\ fwPc = "idle"
    /\ pc = "idle"
    /\ dataPathExists
    /\ lastCall' = "getFeedWatcherData"
    /\ raised' = "none"
    /\ fwArgs' = args
    /\ fetched' = { }
    /\ fromDisk' = { }
    /\ tfIdx' = 1
    /\ df_lis' = << >>
    /\ IF fwFileExists
       THEN /\ out' = read_csv(fwFile)
            /\ fwPc' = "idle"
       ELSE /\ out' = << >>
            /\ fwPc' = "loop"
    /\ UNCHANGED << dataPathExists, wspaceExists, fwFileExists, fwFile, gzFiles,
                    cleanVars, birdVars, batchVars >>

\* lines 116-137: one time frame, from the url or from its gz file
ReadTimeFrame ==
    /\ fwPc = "loop"
    /\ tfIdx <= Len(tfs)
    /\ LET tf == tfs[tfIdx]
       IN  IF ~gzCached(gzFiles, tf)
           THEN LET df == clean_fw_data(Remote(tf), birds, << "US-NC" >>)
                IN  /\ gzFiles' = IF fwArgs.save_
                                  THEN [gzFiles EXCEPT ![tf] =
                                          [exists |-> TRUE, text |-> to_csv(df)]]
                                  ELSE gzFiles
                    /\ df_lis' = Append(df_lis, df)
                    /\ fetched' = fetched \cup { tf }
                    /\ UNCHANGED fromDisk
           ELSE /\ df_lis' = Append(df_lis, read_csv(gzFiles[tf].text))
                /\ fromDisk' = fromDisk \cup { tf }
                /\ UNCHANGED << gzFiles, fetched >>
    /\ tfIdx' = tfIdx + 1
    /\ UNCHANGED << dataPathExists, wspaceExists, fwFileExists, fwFile, fwPc,
                    fwArgs, out, lastCall, raised, cleanVars, birdVars, batchVars >>

\* lines 138-147: concatenate, filter by year, save the final file, return
ConcatAndSave ==
    /\ fwPc = "loop"
    /\ tfIdx > Len(tfs)
    /\ out' = filterYears(ConcatAll(df_lis), fwArgs.min_year, fwArgs.max_year)
    /\ fwFile' = to_csv(out')
    /\ fwFileExists' = TRUE
    /\ fwPc' = "idle"
    /\ tfIdx' = 1
    /\ df_lis' = << >>
    /\ UNCHANGED << dataPathExists, wspaceExists, gzFiles, fwArgs, fetched,
                    fromDisk, lastCall, raised, cleanVars, birdVars, batchVars >>

\* the download is interrupted between two time frames
InterruptFW ==
    /\ fwPc = "loop"
    /\ fwPc' = "idle"
    /\ raised' = "KeyboardInterrupt"
    /\ tfIdx' = 1
    /\ df_lis' = << >>
    /\ UNCHANGED << dataPathExists, wspaceExists, fwFileExists, fwFile,
                    gzFiles, fwArgs, out, fetched, fromDisk, lastCall,
                    cleanVars, birdVars, batchVars >>

\* the final file is deleted between two runs, to have it built again
DeleteFwFile ==
    /\ fwPc = "idle"
    /\ pc = "idle"
    /\ fwFileExists
    /\ fwFileExists' = FALSE
    /\ fwFile' = << >>
    /\ UNCHANGED << dataPathExists, wspaceExists, gzFiles, fwLocals, lastCall,
                    raised, cleanVars, birdVars, batchVars >>

InitFW ==
    /\ Fresh
    /\ projectExists = TRUE
    /\ cmpFileDict = << >>
    /\ cmpParams = << >>
    /\ dataPathExists = TRUE
    /\ wspaceExists = TRUE
    /\ species_df = << Flicker >>
    /\ fwFileExists = FALSE
    /\ grid = parameter_grid
    /\ combos = << >>

NextFW ==
    \/ \E args \in FwArgs : getFeedWatcherData(args)
    \/ ReadTimeFrame
    \/ ConcatAndSave
    \/ InterruptFW
    \/ DeleteFwFile

SpecFW == InitFW /\ [][NextFW]_vars

\* ----------------------------------------------- clean_fw_data on its own
MaxRows == 2

\* rows that pass every filter, and rows that fail one of them
RawRows ==
    { RawRow("norfli", "US-NC", << 2018, 6, 1 >>, 1, 0),
      RawRow("yesfli", "US-NC", << 2018, 6, 1 >>, 1, 0),
      RawRow("norfli", "US-NC", << 2017, 1, 15 >>, 1, 0),
      RawRow("norfli", "US-VA", << 2017, 1, 15 >>, 1, 0),
      RawRow("norfli", "US-NC", << 2017, 1, 15 >>, 0, 0),
      RawRow("norfli", "US-NC", << 2017, 1, 15 >>, 1, 1),
      RawRow("amecro", "US-NC", << 2017, 1, 15 >>, 1, 0) }

RECURSIVE SeqsUpTo(_, _)
SeqsUpTo(S, n) ==
    IF n = 0 THEN { << >> }
    ELSE LET shorter == SeqsUpTo(S, n - 1)
         IN  shorter \cup { Append(q, x) : q \in shorter, x \in S }

InitClean ==
    /\ Fresh
    /\ projectExists = TRUE
    /\ cmpFileDict = << >>
    /\ cmpParams = << >>
    /\ dataPathExists = TRUE
    /\ wspaceExists = TRUE
    /\ species_df = << Flicker >>
    /\ fwFileExists = FALSE
    /\ grid = parameter_grid
    /\ combos = << >>

CallCleanFwData ==
    /\ lastCall # "clean_fw_data"
    /\ \E df \in SeqsUpTo(RawRows, MaxRows),
          codes \in { << "US-NC" >>, << "US-VA", "US-NC" >> } :
          /\ data' = df
          /\ sub_national_code' = codes
          /\ cleaned' = clean_fw_data(df, birds, codes)
    /\ lastCall' = "clean_fw_data"
    /\ UNCHANGED << dataPathExists, wspaceExists, fwFileExists, fwVars,
                    raised, birdVars, batchVars >>

NextClean == CallCleanFwData

SpecClean == InitClean /\ [][NextClean]_vars

\* ------------------------------------------------ getWeatherData, by steps
\* lines 103-112
vars3 == << "ppt", "tmax", "tmin" >>
yrs == << "2017", "2018", "2019" >>
mnths == << "01", "02", "03", "04", "05", "06", "07", "08", "09", "10", "11", "12" >>

\* [(v, p) for v in vars for p in periods]
Pairs(periods) ==
    ConcatAll([a \in 1..Len(vars3) |->
                  [b \in 1..Len(periods) |-> << vars3[a], periods[b] >>]])

pairs == Pairs(yrs)
norm_pairs == Pairs(mnths)

\* the two download loops of lines 122-157, one after the other
archives == pairs \o norm_pairs

\* the zip file weather/<v>_<p>.zip of an archive
dwnld_out(a) == << "weather", a[1], a[2], "zip" >>

\* the extracted directory weather/<v>_<p> of an archive
dwnld_path(a) == WeatherDir(a[1], a[2])

\* mutant: the extracted directory is not looked for
extracted_never(paths, a) == FALSE

\* lines 125 and 144: os.path.exists(dwnld_path)
extracted(paths, a) == dwnld_path(a) \in paths

\* lines 161-166: the name of the final raster of a variable
raster(var) ==
    IF var = "tmax" THEN "maxTemp_all_years"
    ELSE IF var = "tmin" THEN "minTemp_all_years"
    ELSE "avgPrecip_all_years"

\* the rasters a variable is processed through, with their names as the
\* geodatabase items << words, last word >>
raster_US(var) == << << raster(var) >>, "US" >>
raster_30yr(var) == << << var, "30yr" >>, "800m" >>
input_4km_proj(var) == << << raster(var), "US" >>, "projected" >>
input_800m_proj(var) == << << var, "30yr", "800m" >>, "projected" >>
resampled(var) == << << "resampled", var >>, "800m" >>

\* lines 183-225: the rasters saved for a variable, in order
saved(var) ==
    << raster_US(var), raster_30yr(var), input_4km_proj(var),
       input_800m_proj(var), resampled(var), Item(raster(var)) >>

\* mutant: only the aggregated rasters are deleted
unneeded_aggregates(var) == << raster_US(var), raster_30yr(var) >>

\* lines 230-236: the rasters deleted for a variable, in order
unneeded(var) ==
    << raster_US(var), raster_30yr(var), resampled(var),
       input_4km_proj(var), input_800m_proj(var) >>

\* what the steps of getWeatherData leave alone
weatherFrame ==
    UNCHANGED << dataPathExists, wspaceExists, species_df, fwFileExists, grid,
                 combos, logFile, cacheFile, pc, lastStep, loopVars, history,
                 finalRun, cleanVars, fwVars, mapVars, birdVars,
                 paramVars, logVars, layerVars, scoreVars >>

\* lines 93-119: the path checks, the workspace, the weather directory
getWeatherDataStart ==
    /\ wPc = "idle"
    /\ pc = "idle"
    /\ lastCall' = "getWeatherData"
    /\ wFetched' = { }
    /\ wCreated' = { }
    /\ wResult' = << >>
    /\ wIdx' = 1
    /\ wStep' = "check"
    /\ wOp' = 0
    /\ IF pathsMissing
       THEN /\ raised' = "FileNotFoundError"
            /\ UNCHANGED << dirs, env, wPc >>
       ELSE /\ raised' = "none"
            /\ env' = [env EXCEPT !.workspace = TRUE]
            /\ dirs' = dirs \cup { << "weather" >> }
            /\ wPc' = "archives"
    /\ UNCHANGED << gdb, downloads, zips >>
    /\ weatherFrame

\* lines 125 and 144: the archive has been extracted before
SkipArchive ==
    /\ wPc = "archives"
    /\ wIdx <= Len(archives)
    /\ wStep = "check"
    /\ extracted(dirs, archives[wIdx])
    /\ wIdx' = wIdx + 1
    /\ UNCHANGED << dirs, env, gdb, downloads, zips, raised, lastCall, wPc,
                    wStep, wOp, wFetched, wCreated, wResult >>
    /\ weatherFrame

\* lines 126-131 and 145-150: urlretrieve saves the zip file
DownloadArchive ==
    /\ wPc = "archives"
    /\ wIdx <= Len(archives)
    /\ wStep = "check"
    /\ ~extracted(dirs, archives[wIdx])
    /\ zips' = zips \cup { dwnld_out(archives[wIdx]) }
    /\ downloads' = downloads \cup { << "prism", archives[wIdx][1], archives[wIdx][2] >> }
    /\ wFetched' = wFetched \cup { archives[wIdx] }
    /\ wStep' = "downloaded"
    /\ UNCHANGED << dirs, env, gdb, raised, lastCall, wPc, wIdx, wOp,
                    wCreated, wResult >>
    /\ weatherFrame

\* lines 134-137 and 153-156: the zip file is extracted
ExtractArchive ==
    /\ wPc = "archives"
    /\ wStep = "downloaded"
    /\ dirs' = dirs \cup { dwnld_path(archives[wIdx]) }
    /\ wStep' = "extracted"
    /\ UNCHANGED << env, gdb, downloads, zips, raised, lastCall, wPc, wIdx,
                    wOp, wFetched, wCreated, wResult >>
    /\ weatherFrame

\* lines 138 and 157: os.remove(dwnld_out)
RemoveZip ==
    /\ wPc = "archives"
    /\ wStep = "extracted"
    /\ zips' = zips \ { dwnld_out(archives[wIdx]) }
    /\ wStep' = "check"
    /\ wIdx' = wIdx + 1
    /\ UNCHANGED << dirs, env, gdb, downloads, raised, lastCall, wPc, wOp,
                    wFetched, wCreated, wResult >>
    /\ weatherFrame

\* line 159: both loops are done
BeginProcessing ==
    /\ wPc = "archives"
    /\ wIdx > Len(archives)
    /\ wPc' = "process"
    /\ wIdx' = 1
    /\ UNCHANGED << dirs, env, gdb, downloads, zips, raised, lastCall, wStep,
                    wOp, wFetched, wCreated, wResult >>
    /\ weatherFrame

\* lines 160-168: the variable is skipped if its final raster exists
ProcessVar ==
    /\ wPc = "process"
    /\ wIdx <= Len(vars3)
    /\ wOp = 0
    /\ IF Item(raster(vars3[wIdx])) \in gdb
       THEN /\ wIdx' = wIdx + 1
            /\ UNCHANGED << env, wOp >>
       ELSE /\ env' = [env EXCEPT !.overwriteOutput = TRUE]
            /\ wOp' = 1
            /\ UNCHANGED wIdx
    /\ UNCHANGED << dirs, gdb, downloads, zips, raised, lastCall, wPc, wStep,
                    wFetched, wCreated, wResult >>
    /\ weatherFrame

\* lines 169-227: the next raster of the variable is saved
SaveRaster ==
    /\ wPc = "process"
    /\ wOp > 0
    /\ wOp \in 1..Len(saved(vars3[wIdx]))
    /\ gdb' = gdb \cup { saved(vars3[wIdx])[wOp] }
    /\ wCreated' = wCreated \cup { saved(vars3[wIdx])[wOp] }
    /\ wOp' = wOp + 1
    /\ UNCHANGED << dirs, env, downloads, zips, raised, lastCall, wPc, wIdx,
                    wStep, wFetched, wResult >>
    /\ weatherFrame

\* lines 229-236: the next unneeded raster is deleted, if it is listed
DeleteRaster ==
    /\ wPc = "process"
    /\ wOp > 0
    /\ wOp > Len(saved(vars3[wIdx]))
    /\ wOp <= Len(saved(vars3[wIdx])) + Len(unneeded(vars3[wIdx]))
    /\ gdb' = gdb \ { unneeded(vars3[wIdx])[wOp - Len(saved(vars3[wIdx]))] }
    /\ wOp' = wOp + 1
    /\ UNCHANGED << dirs, env, downloads, zips, raised, lastCall, wPc, wIdx,
                    wStep, wFetched, wCreated, wResult >>
    /\ weatherFrame

\* line 238: the variable is done
EndVar ==
    /\ wPc = "process"
    /\ wOp > 0
    /\ wOp > Len(saved(vars3[wIdx])) + Len(unneeded(vars3[wIdx]))
    /\ env' = [env EXCEPT !.overwriteOutput = FALSE]
    /\ wOp' = 0
    /\ wIdx' = wIdx + 1
    /\ UNCHANGED << dirs, gdb, downloads, zips, raised, lastCall, wPc, wStep,
                    wFetched, wCreated, wResult >>
    /\ weatherFrame

\* line 240
ReturnWeather ==
    /\ wPc = "process"
    /\ wIdx > Len(vars3)
    /\ wResult' = << raster("ppt"), raster("tmin"), raster("tmax") >>
    /\ wPc' = "idle"
    /\ wIdx' = 1
    /\ UNCHANGED << dirs, env, gdb, downloads, zips, raised, lastCall, wStep,
                    wOp, wFetched, wCreated >>
    /\ weatherFrame

\* the script is stopped while an archive is downloaded or extracted, or
\* between two steps of the processing of a variable
InterruptWeather ==
    /\ \/ wPc = "archives" /\ wStep \in { "check", "downloaded" }
       \/ wPc = "process"
    /\ wPc' = "idle"
    /\ wIdx' = 1
    /\ wStep' = "check"
    /\ wOp' = 0
    /\ raised' = "KeyboardInterrupt"
    /\ UNCHANGED << dirs, env, gdb, downloads, zips, lastCall, wFetched,
                    wCreated, wResult >>
    /\ weatherFrame

InitWeather ==
    /\ Fresh
    /\ projectExists = TRUE
    /\ cmpFileDict = << >>
    /\ cmpParams = << >>
    /\ dataPathExists \in BOOLEAN
    /\ wspaceExists \in BOOLEAN
    /\ species_df = << Flicker >>
    /\ fwFileExists = FALSE
    /\ grid = parameter_grid
    /\ combos = << >>

NextWeather ==
    \/ getWeatherDataStart
    \/ SkipArchive
    \/ DownloadArchive
    \/ ExtractArchive
    \/ RemoveZip
    \/ BeginProcessing
    \/ ProcessVar
    \/ SaveRaster
    \/ DeleteRaster
    \/ EndVar
    \/ ReturnWeather
    \/ InterruptWeather

SpecWeather == InitWeather /\ [][NextWeather]_vars

\* -------------------------------------------------------------- outputMaps
\* os.path.join(data_path, "maps")
DataMaps == << "data", "maps" >>

\* the folders handed in as output_folder: the one of woodpeckers_nc.py
\* line 139 and one chosen by the user of the tool (PDF_OUTPUT_LOCATION)
OutputFolders == { DataMaps, << "reports", "pdfs" >> }

\* lines 136-142 of createMapAndExport: one pdf per raster of brd_rasters,
\* named raster.replace('Trained_Raster', 'Dist') + ".pdf"
createMapAndExport(brd_rasters, folder) ==
    { << folder, n, "NC_Dist.pdf" >> : n \in brd_rasters }

\* lines 165-190
outputMaps(folder) ==
    /\ pc = "idle"
    /\ fwPc = "idle"
    /\ wPc = "idle"
    /\ lastCall' = "outputMaps"
    /\ output_folder' = folder
    /\ IF ~projectExists \/ ~wspaceExists
       THEN /\ raised' = "FileNotFoundError"
            /\ UNCHANGED << dataPathExists, dirs, env, pdfs >>
       ELSE LET maps_folder == DataMaps
                trained_rasters == { it \in gdb : it[2] = "NC_Trained_Raster" }
                brd_rasters ==
                    { formatted_name(species_df[k]) : k \in
                        { j \in 1..Len(species_df) :
                            << formatted_name(species_df[j]), "NC_Trained_Raster" >>
                                \in trained_rasters } }
            IN  /\ raised' = "none"
                /\ env' = [env EXCEPT !.workspace = TRUE, !.overwriteOutput = FALSE]
                /\ dataPathExists' = TRUE
                /\ dirs' = dirs \cup { << "maps" >> }
                /\ pdfs' = pdfs \cup createMapAndExport(brd_rasters, maps_folder)
    /\ UNCHANGED << wspaceExists, species_df, fwFileExists, grid, combos, gdb,
                    downloads, logFile, cacheFile, pc, lastStep, loopVars,
                    history, finalRun, projectExists, paramVars, logVars,
                    layerVars, scoreVars, cleanVars,
                    fwVars,
                    weatherVars, birdVars >>

\* batchMaxEnt for one species and outputMaps, in any order
InitMaps ==
    /\ Fresh
    /\ dataPathExists = TRUE
    /\ wspaceExists \in BOOLEAN
    /\ projectExists \in BOOLEAN
    /\ cmpFileDict = << >>
    /\ cmpParams = << >>
    /\ species_df = << Flicker >>
    /\ fwFileExists = TRUE
    /\ grid = parameter_grid
    /\ combos = << >>

NextMaps ==
    \/ Next
    \/ \E folder \in OutputFolders : outputMaps(folder)

SpecMaps == InitMaps /\ [][NextMaps]_vars

\* ------------------------------------------- batchBirdProcessing, by steps
\* the feature classes of the base feature class FW_woodpeckers_NC
base_fc == Item("FW_woodpeckers_NC")
base_fc_projected == Item("FW_woodpeckers_NC_projected")
base_fc_NC == Item("FW_woodpeckers_NC_NC")

\* lines 64-76: the feature classes created for the base, in order
base_created == << base_fc, base_fc_projected, base_fc_NC >>

\* lines 79-80
base_deleted == << base_fc, base_fc_projected >>

RECURSIVE unique(_)
\* species_name.unique(): the values in the order they first appear
unique(names) ==
    IF Len(names) = 0 THEN << >>
    ELSE LET before == unique(SubSeq(names, 1, Len(names) - 1))
         IN  IF Contains(before, names[Len(names)]) THEN before
             ELSE Append(before, names[Len(names)])

\* line 83: fw_df.species_name.unique(), fw_df being what
\* getFeedWatcherData returned
fw_species == unique([k \in 1..Len(out) |-> out[k].species_name])

\* mutant: the feature class is created whether listed or not
listed_never(fcs, fc) == FALSE

\* lines 62 and 85: the name is in existing_fcs
listed(fcs, fc) == fc \in fcs

\* the feature classes of the workspace (the rasters are not listed)
ListFeatureClasses(items) ==
    { it \in items : it \in { base_fc, base_fc_projected, base_fc_NC }
                     \/ it[2] = "FW_NC" }

\* a tool writes the output: it fails if the output exists and
\* arcpy.env.overwriteOutput is off
CanWrite(fc) == fc \notin gdb \/ env.overwriteOutput

birdsFrame ==
    UNCHANGED << dataPathExists, wspaceExists, species_df, fwFileExists, grid,
                 combos, dirs, downloads, logFile, cacheFile, pc, lastStep,
                 loopVars, history, finalRun, cleanVars, fwVars, weatherVars,
                 mapVars, paramVars, logVars, layerVars, scoreVars >>

\* woodpeckers_nc.py line 62: existing_fcs = arcpy.ListFeatureClasses()
ListExisting ==
    /\ bPc = "idle"
    /\ fwPc = "idle"
    /\ existing_fcs # ListFeatureClasses(gdb)
    /\ existing_fcs' = ListFeatureClasses(gdb)
    /\ UNCHANGED << env, gdb, raised, lastCall, bPc, bOp, bIdx, fcCreated >>
    /\ birdsFrame

\* lines 47-62: the path checks, the workspace, the base feature class is
\* looked for in existing_fcs
batchBirdProcessingStart ==
    /\ bPc = "idle"
    /\ fwPc = "idle"
    /\ lastCall' = "batchBirdProcessing"
    /\ fcCreated' = << >>
    /\ bIdx' = 1
    /\ IF pathsMissing \/ ~fwFileExists
       THEN /\ raised' = "FileNotFoundError"
            /\ UNCHANGED << env, bPc, bOp >>
       ELSE /\ raised' = "none"
            /\ env' = [env EXCEPT !.workspace = TRUE]
            /\ IF ~listed(existing_fcs, base_fc_NC)
               THEN bPc' = "base" /\ bOp' = 1
               ELSE bPc' = "species" /\ bOp' = 0
    /\ UNCHANGED << gdb, existing_fcs >>
    /\ birdsFrame

\* lines 64-76: XYTableToPoint, Project, CopyFeatures
CreateBaseFc ==
    /\ bPc = "base"
    /\ bOp \in 1..Len(base_created)
    /\ IF CanWrite(base_created[bOp])
       THEN /\ gdb' = gdb \cup { base_created[bOp] }
            /\ fcCreated' = Append(fcCreated, base_created[bOp])
            /\ bOp' = bOp + 1
            /\ UNCHANGED << raised, bPc >>
       ELSE /\ raised' = "ExecuteError"
            /\ bPc' = "idle"
            /\ bOp' = 0
            /\ UNCHANGED << gdb, fcCreated >>
    /\ UNCHANGED << env, existing_fcs, lastCall, bIdx >>
    /\ birdsFrame

\* lines 79-80: Delete_management
DeleteBaseFc ==
    /\ bPc = "base"
    /\ bOp > Len(base_created)
    /\ bOp <= Len(base_created) + Len(base_deleted)
    /\ gdb' = gdb \ { base_deleted[bOp - Len(base_created)] }
    /\ bOp' = bOp + 1
    /\ UNCHANGED << env, existing_fcs, raised, lastCall, bPc, bIdx, fcCreated >>
    /\ birdsFrame

\* line 83: the loop over the species begins
BeginSpeciesFcs ==
    /\ bPc = "base"
    /\ bOp > Len(base_created) + Len(base_deleted)
    /\ bPc' = "species"
    /\ bOp' = 0
    /\ UNCHANGED << env, gdb, existing_fcs, raised, lastCall, bIdx, fcCreated >>
    /\ birdsFrame

\* lines 84-90: the feature class of one species
SelectSpecies ==
    /\ bPc = "species"
    /\ bIdx <= Len(fw_species)
    /\ LET brd == fc_name(formatted_name(fw_species[bIdx]))
       IN  IF listed(existing_fcs, brd)
           THEN /\ bIdx' = bIdx + 1
                /\ UNCHANGED << gdb, raised, bPc, fcCreated >>
           ELSE IF base_fc_NC \in gdb /\ CanWrite(brd)
           THEN /\ gdb' = gdb \cup { brd }
                /\ fcCreated' = Append(fcCreated, brd)
                /\ bIdx' = bIdx + 1
                /\ UNCHANGED << raised, bPc >>
           ELSE /\ raised' = "ExecuteError"
                /\ bPc' = "idle"
                /\ bIdx' = 1
                /\ UNCHANGED << gdb, fcCreated >>
    /\ UNCHANGED << env, existing_fcs, lastCall, bOp >>
    /\ birdsFrame

\* lines 92-93
ReturnBirds ==
    /\ bPc = "species"
    /\ bIdx > Len(fw_species)
    /\ bPc' = "idle"
    /\ bIdx' = 1
    /\ UNCHANGED << env, gdb, existing_fcs, raised, lastCall, bOp, fcCreated >>
    /\ birdsFrame

\* the script is stopped between two steps
InterruptBirds ==
    /\ bPc # "idle"
    /\ bPc' = "idle"
    /\ bOp' = 0
    /\ bIdx' = 1
    /\ raised' = "KeyboardInterrupt"
    /\ UNCHANGED << env, gdb, existing_fcs, lastCall, fcCreated >>
    /\ birdsFrame

\* getFeedWatcherData and batchBirdProcessing over one data directory
InitBirds ==
    /\ Fresh
    /\ dataPathExists = TRUE
    /\ wspaceExists = TRUE
    /\ projectExists = TRUE
    /\ cmpFileDict = << >>
    /\ cmpParams = << >>
    /\ species_df = << Flicker, FlickerYS >>
    /\ fwFileExists = FALSE
    /\ grid = parameter_grid
    /\ combos = << >>

NextBirds ==
    \/ bPc = "idle" /\ getFeedWatcherData(MainFwArgs)
    \/ bPc = "idle" /\ ReadTimeFrame
    \/ bPc = "idle" /\ ConcatAndSave
    \/ ListExisting
    \/ batchBirdProcessingStart
    \/ CreateBaseFc
    \/ DeleteBaseFc
    \/ BeginSpeciesFcs
    \/ SelectSpecies
    \/ ReturnBirds
    \/ InterruptBirds

SpecBirds == InitBirds /\ [][NextBirds]_vars

\* ------------------------------------------------------- the main script
\* mutant: the weather rasters are fetched after the models are trained
MainOrder_weatherLate ==
    << "getNCBoundary", "getFeedWatcherData", "batchBirdProcessing",
       "getLandCoverData", "getDEMData", "batchMaxEnt", "getWeatherData",
       "outputMaps" >>

\* woodpeckers_nc.py lines 67-140: the calls of the script, in order
MainOrder ==
    << "getNCBoundary", "getFeedWatcherData", "batchBirdProcessing",
       "getLandCoverData", "getDEMData", "getWeatherData", "batchMaxEnt",
       "outputMaps" >>

\* the call the script makes under the name
Call(f) ==
    CASE f = "getNCBoundary" -> getNCBoundary
      [] f = "getFeedWatcherData" -> getFeedWatcherData(MainFwArgs)
      [] f = "batchBirdProcessing" -> batchBirdProcessing
      [] f = "getLandCoverData" -> getLandCoverData
      [] f = "getDEMData" -> getDEMData
      [] f = "getWeatherData" -> getWeatherData
      [] f = "batchMaxEnt" -> batchMaxEnt
      [] f = "outputMaps" -> outputMaps(DataMaps)

\* the call made last has returned without an exception
Returned == pc = "idle" /\ fwPc = "idle" /\ raised = "none"

\* the script makes its next call
MainStep ==
    \E k \in 1..Len(MainOrder) :
        /\ Returned
        /\ lastCall = IF k = 1 THEN "none" ELSE MainOrder[k - 1]
        /\ Call(MainOrder[k])

\* the script has ended, with its last call or an exception, and is started
\* again: a new process, with a new arcpy.env (line 59 sets the workspace,
\* which every call sets again before it uses it)
RunAgain ==
    /\ pc = "idle"
    /\ fwPc = "idle"
    /\ lastCall = MainOrder[Len(MainOrder)] \/ raised # "none"
    /\ lastCall' = "none"
    /\ raised' = "none"
    /\ env' = [workspace |-> FALSE, overwriteOutput |-> FALSE, cellSize |-> "MAXOF"]
    /\ lastStep' = "none"
    /\ UNCHANGED << inputs, dirs, gdb, logFile, cacheFile, pc, loopVars,
                    history, finalRun >>

\* woodpeckers_nc.py lines 53-60: the data directory and the geodatabase
\* exist; species_df holds the woodpeckers of lines 79 and 123
InitMain ==
    /\ Fresh
    /\ dataPathExists = TRUE
    /\ wspaceExists = TRUE
    /\ projectExists = TRUE
    /\ cmpFileDict = << >>
    /\ cmpParams = << >>
    /\ species_df = << Flicker, FlickerYS >>
    /\ fwFileExists = FALSE
    /\ grid = parameter_grid
    /\ combos = << >>

NextMain ==
    \/ MainStep
    \/ ReadTimeFrame
    \/ ConcatAndSave
    \/ InterruptFW
    \/ SkipSpecies
    \/ BeginSpecies
    \/ SkipCombination
    \/ TrainCombination
    \/ UpdateChampion
    \/ KeepChampion
    \/ FinalOutput
    \/ FinalOutputNoPickle
    \/ Finish
    \/ RunAgain

SpecMain == InitMain /\ [][NextMain]_vars

\* ------------------------------------------- checkModelParams on its own
\* the longest log file compared
MaxEntries == 2

\* two parameters of the grid (lines 360-368) and two values of each
ParamNames == { "number_knots", "spatial_thinning" }

ParamValues(name) ==
    IF name = "number_knots" THEN { "10", "50" } ELSE { "NO_THINNING", "THINNING" }

\* the dictionaries over some of the names
ParamDicts ==
    UNION { { d \in [names -> UNION { ParamValues(n) : n \in ParamNames }] :
                \A n \in names : d[n] \in ParamValues(n) } :
            names \in SUBSET ParamNames }

\* an entry as logModel wrote it: parameters with the model's f1 and cutoff
LoggedEntries ==
    { [key \in DOMAIN d \cup NumericKeys |->
          IF key \in DOMAIN d THEN d[key]
          ELSE IF key = "f1" THEN 1 ELSE Cutoffs[1]] : d \in ParamDicts }

InitParams ==
    /\ Fresh
    /\ dataPathExists = TRUE
    /\ wspaceExists = TRUE
    /\ projectExists = TRUE
    /\ species_df = << Flicker >>
    /\ fwFileExists = FALSE
    /\ grid = parameter_grid
    /\ combos = << >>
    /\ cmpFileDict \in SeqsUpTo(LoggedEntries, MaxEntries)
    /\ cmpParams \in ParamDicts

\* a call of checkModelParams on the two arguments
CallCheckModelParams ==
    /\ lastCall # "checkModelParams"
    /\ lastCall' = "checkModelParams"
    /\ cmpResult' = IF checkModelParams(cmpFileDict, cmpParams) THEN "True" ELSE "False"
    /\ UNCHANGED << dataPathExists, wspaceExists, species_df, fwFileExists,
                    downloads, grid, combos, cleanVars, fwVars, weatherVars,
                    mapVars, birdVars, logVars, layerVars, scoreVars, cmpFileDict,
                    cmpParams, dirs, env, gdb,
                    logFile, cacheFile, pc, lastStep, loopVars, raised, history,
                    finalRun >>

NextParams == CallCheckModelParams

SpecParams == InitParams /\ [][NextParams]_vars

\* ------------------------------------------------- logModel, step by step
\* json.load succeeds on every file checkModelLogs opens for the species
ReadableLogs(species) ==
    \A n \in FormattedNames :
        (logFile[n].exists /\ IsSubstring(species, LogFileName(n))) => n \notin logTorn

logFrame ==
    UNCHANGED << dataPathExists, wspaceExists, species_df, fwFileExists,
                 downloads, grid, combos, cleanVars, fwVars, weatherVars,
                 mapVars, birdVars, paramVars, layerVars, scoreVars, lastCall >>

\* lines 390-394 with every log file readable: the combination is skipped
SkipReadable ==
    /\ pc = "grid"
    /\ spIdx <= Len(species_df)
    /\ ReadableLogs(s)
    /\ SkipCombination

\* presence_only.py lines 146-151: json.load raises on a file that holds no
\* complete JSON text, and nothing catches it
checkModelLogsRaises ==
    /\ pc = "grid"
    /\ i <= Len(all_combinations)
    /\ ~ReadableLogs(s)
    /\ lastStep' = "checkModelLogsRaises"
    /\ raised' = "JSONDecodeError"
    /\ pc' = "idle"
    /\ LocalsGone
    /\ UNCHANGED << dirs, env, gdb, logFile, cacheFile, finalRun, logVars >>
    /\ logFrame

\* lines 394-434 and logModel up to line 113: the model is trained and
\* scored, the log is read and the entry appended to content, and
\* open(log_file, "w") has emptied the file; until json.dump has written all
\* of content the file holds nothing or the beginning of the text
OpenLogForWrite ==
    /\ pc = "grid"
    /\ lastStep' = "OpenLogForWrite"
    /\ i <= Len(all_combinations)
    /\ ReadableLogs(s)
    /\ LET combination == all_combinations[i]
           params == zipParams(combination)
       IN  /\ checkModelLogs(logFile, params, s)
           /\ \E score \in ScoreTables :
                LET run == runMaxEnt(static_params, params, outputs, FALSE, s)
                    f1 == maxF1(score)
                    cutoff == score[idxmax(score)].cutoff
                    logged == [k \in DOMAIN params \cup { "f1", "cutoff" } |->
                                 IF k = "f1" THEN f1
                                 ELSE IF k = "cutoff" THEN round2(cutoff)
                                 ELSE params[k]]
                    created == IF ~logFile[s].exists
                               THEN [exists |-> TRUE, text |-> JsonDump(<< >>)]
                               ELSE logFile[s]
                IN  /\ gdb' = (gdb \cup run.written) \ { << s, "NC_Sensitivity_Table" >> }
                    /\ pending' = Append(JsonLoad(created.text), logged)
                    /\ logFile' = [logFile EXCEPT ![s] = [exists |-> TRUE, text |-> << >>]]
                    /\ logTorn' = logTorn \cup { s }
                    /\ cur' = [f1 |-> f1, cutoff |-> cutoff, params |-> logged,
                               combination |-> combination]
                    /\ trained' = Append(trained, << combination, f1 >>)
    /\ pc' = "writing"
    /\ UNCHANGED << dirs, env, cacheFile, spIdx, i, best_combination,
                    best_evaluation_metric, raised, skipped, cacheAtStart,
                    logAtStart, finalRun >>
    /\ logFrame

\* logModel line 114: json.dump has written all of content
DumpLog ==
    /\ pc = "writing"
    /\ lastStep' = "DumpLog"
    /\ logFile' = [logFile EXCEPT ![s] = [exists |-> TRUE, text |-> JsonDump(pending)]]
    /\ logTorn' = logTorn \ { s }
    /\ pending' = << >>
    /\ pc' = "logged"
    /\ UNCHANGED << dirs, env, gdb, cacheFile, loopVars, raised, history, finalRun >>
    /\ logFrame

\* a KeyboardInterrupt between open(log_file, "w") and the end of json.dump
InterruptLog ==
    /\ pc = "writing"
    /\ lastStep' = "InterruptLog"
    /\ pc' = "idle"
    /\ raised' = "KeyboardInterrupt"
    /\ LocalsGone
    /\ pending' = << >>
    /\ UNCHANGED << dirs, env, gdb, logFile, cacheFile, finalRun, logTorn >>
    /\ logFrame

InitLog ==
    /\ Fresh
    /\ projectExists = TRUE
    /\ cmpFileDict = << >>
    /\ cmpParams = << >>
    /\ dataPathExists = TRUE
    /\ wspaceExists = TRUE
    /\ species_df = << Flicker >>
    /\ fwFileExists = TRUE
    /\ grid = parameter_grid
    /\ combos = << >>

NextLog ==
    \/ batchMaxEnt
    \/ SkipSpecies
    \/ BeginSpecies
    \/ SkipReadable
    \/ checkModelLogsRaises
    \/ OpenLogForWrite
    \/ DumpLog
    \/ InterruptLog
    \/ UpdateChampion
    \/ KeepChampion
    \/ FinalOutput
    \/ FinalOutputNoPickle
    \/ Finish
    \/ Interrupt

SpecLog == InitLog /\ [][NextLog]_vars

\* ------------------------------------------------------ scoring, in detail
\* the rates of a sensitivity table are the fractions k / MaxRate
MaxRate == 2

\* a number is a fraction n / d with d > 0; -inf has d = 0
minus_inf == [n |-> -1, d |-> 0]

IsInf(a) == a.d = 0

Two == [n |-> 2, d |-> 1]

Plus(a, b) == [n |-> a.n * b.d + b.n * a.d, d |-> a.d * b.d]

Times(a, b) == [n |-> a.n * b.n, d |-> a.d * b.d]

\* a / b for b > 0; Python raises ZeroDivisionError when b == 0
Over(a, b) == [n |-> a.n * b.d, d |-> a.d * b.n]

\* a <= b, -inf being below every number
Leq(a, b) ==
    IF IsInf(a) THEN TRUE
    ELSE IF IsInf(b) THEN FALSE
    ELSE a.n * b.d <= b.n * a.d

Rates == { [n |-> k, d |-> MaxRate] : k \in 0..MaxRate }

\* presence_only.py lines 40-43
getPrecision(TP, FP) ==
    IF Plus(TP, FP).n = 0 THEN minus_inf
    ELSE Over(TP, Plus(TP, FP))

\* mutant: the harmonic mean without its factor 2
getF1_half(TP, FP, recall) ==
    IF Plus(TP, FP).n = 0 THEN minus_inf
    ELSE LET P == Over(TP, Plus(TP, FP))
         IN  IF Plus(P, recall).n = 0 THEN minus_inf
             ELSE Over(Times(P, recall), Plus(P, recall))

\* lines 56-59: 2 * ((TP / (TP + FP)) * recall) / ((TP / (TP + FP)) + recall)
getF1(TP, FP, recall) ==
    IF Plus(TP, FP).n = 0 THEN minus_inf
    ELSE LET P == Over(TP, Plus(TP, FP))
         IN  IF Plus(P, recall).n = 0 THEN minus_inf
             ELSE Over(Times(Two, Times(P, recall)), Plus(P, recall))

\* the rows the cursor of lines 68-69 can read: one per cutoff
SensitivityTables ==
    { [k \in 1..Len(Cutoffs) |->
          [cutoff |-> Cutoffs[k], TP |-> r[k][1], FP |-> r[k][2], recall |-> r[k][3]]] :
        r \in [1..Len(Cutoffs) -> Rates \X Rates \X Rates] }

\* line 418, max(score.f1), on fractions
score_max(rows) ==
    CHOOSE m \in { rows[k].f1 : k \in 1..Len(rows) } :
        \A k \in 1..Len(rows) : Leq(rows[k].f1, m)

\* line 419, score.f1.idxmax(): the first row holding the maximum
score_idxmax(rows) ==
    CHOOSE k \in 1..Len(rows) :
        /\ Leq(score_max(rows), rows[k].f1)
        /\ \A j \in 1..(k - 1) : ~Leq(score_max(rows), rows[j].f1)

scoreFrame ==
    UNCHANGED << dataPathExists, wspaceExists, species_df, fwFileExists,
                 downloads, grid, combos, cleanVars, fwVars, weatherVars,
                 mapVars, birdVars, paramVars, logVars, layerVars, dirs, env,
                 gdb, logFile, cacheFile, pc, lastStep, loopVars, raised,
                 history, finalRun >>

\* lines 61-85, called on one table
scoreFromSensitivityTable ==
    /\ lastCall = "none"
    /\ lastCall' = "scoreFromSensitivityTable"
    /\ \E table \in SensitivityTables :
          /\ sensTable' = table
          /\ scoreDf' = [k \in 1..Len(table) |->
                           [cutoff |-> table[k].cutoff,
                            precision |-> getPrecision(table[k].TP, table[k].FP),
                            f1 |-> getF1(table[k].TP, table[k].FP, table[k].recall)]]
    /\ bestRow' = << >>
    /\ scoreFrame

\* lines 418-420: f1, max_f1_index and cutoff
SelectCutoff ==
    /\ lastCall = "scoreFromSensitivityTable"
    /\ lastCall' = "SelectCutoff"
    /\ bestRow' = [f1 |-> score_max(scoreDf),
                   max_f1_index |-> score_idxmax(scoreDf),
                   cutoff |-> scoreDf[score_idxmax(scoreDf)].cutoff]
    /\ UNCHANGED << sensTable, scoreDf >>
    /\ scoreFrame

InitScore ==
    /\ Fresh
    /\ projectExists = TRUE
    /\ cmpFileDict = << >>
    /\ cmpParams = << >>
    /\ dataPathExists = TRUE
    /\ wspaceExists = TRUE
    /\ species_df = << Flicker >>
    /\ fwFileExists = TRUE
    /\ grid = parameter_grid
    /\ combos = << >>

NextScore ==
    \/ scoreFromSensitivityTable
    \/ SelectCutoff

SpecScore == InitScore /\ [][NextScore]_vars

\* --------------------------------------------- createMapAndExport, by steps
\* raster + "_Lyr", for the trained raster of a species
Lyr(n) == << n, "NC_Trained_Raster_Lyr" >>

\* the keys of brd_rasters: trained rasters of different species, in order
RasterLists ==
    { << >> } \cup { << n >> : n \in FormattedNames }
        \cup { q \in FormattedNames \X FormattedNames : q[1] # q[2] }

\* lines 75-78: the first layer of the name is removed
removeLayer(lyrs, name) ==
    IF \E k \in 1..Len(lyrs) : lyrs[k].name = name
    THEN LET first == CHOOSE k \in 1..Len(lyrs) :
                        /\ lyrs[k].name = name
                        /\ \A j \in 1..(k - 1) : lyrs[j].name # name
         IN  SubSeq(lyrs, 1, first - 1) \o SubSeq(lyrs, first + 1, Len(lyrs))
    ELSE lyrs

\* lines 83-85: the new layer goes after m.listLayers()[1], the second layer
insertLayer(lyrs, name) ==
    SubSeq(lyrs, 1, 2) \o << [name |-> name, visible |-> TRUE] >>
        \o SubSeq(lyrs, 3, Len(lyrs))

\* mutant: the loop hides no layer
hideOthers_none(lyrs, name) == lyrs

\* lines 88-93: every layer but the raster's and the basemaps is hidden
hideOthers(lyrs, name) ==
    [k \in 1..Len(lyrs) |->
        IF lyrs[k].name = name \/ lyrs[k].name \in Basemaps
        THEN lyrs[k]
        ELSE [lyrs[k] EXCEPT !.visible = FALSE]]

\* lines 88-91: l_idx is the index of the last layer of the name
lastNamed(lyrs, name) ==
    CHOOSE k \in 1..Len(lyrs) :
        /\ lyrs[k].name = name
        /\ \A j \in (k + 1)..Len(lyrs) : lyrs[j].name # name

VisibleNames(lyrs) == { lyrs[k].name : k \in { j \in 1..Len(lyrs) : lyrs[j].visible } }

layersFrame ==
    UNCHANGED << dataPathExists, wspaceExists, species_df, fwFileExists,
                 downloads, grid, combos, cleanVars, fwVars, weatherVars,
                 projectExists, output_folder, birdVars, paramVars, logVars,
                 scoreVars, dirs, gdb, logFile, cacheFile, pc, lastStep,
                 loopVars, history, finalRun >>

\* lines 57-63: the workspace is set and the project opened
createMapAndExportStart ==
    /\ mPc = "idle"
    /\ pc = "idle"
    /\ \E rasters \in RasterLists : mRasters' = rasters
    /\ lastCall' = "createMapAndExport"
    /\ raised' = "none"
    /\ env' = [env EXCEPT !.workspace = TRUE, !.overwriteOutput = TRUE]
    /\ layers' = savedLayers
    /\ mIdx' = 1
    /\ l_idx' = 0
    /\ exported' = << >>
    /\ mPc' = "loop"
    /\ UNCHANGED << savedLayers, pdfs >>
    /\ layersFrame

\* lines 66-85: a layer of the name is removed, the raster layer is made and
\* inserted; listLayers()[1] raises IndexError on a map of fewer than two layers
InsertRasterLayer ==
    /\ mPc = "loop"
    /\ mIdx <= Len(mRasters)
    /\ LET name == Lyr(mRasters[mIdx])
           kept == removeLayer(layers, name)
       IN  IF Len(kept) < 2
           THEN /\ raised' = "IndexError"
                /\ mPc' = "idle"
                /\ layers' = << >>
           ELSE /\ layers' = insertLayer(kept, name)
                /\ mPc' = "hide"
                /\ UNCHANGED raised
    /\ UNCHANGED << savedLayers, mRasters, mIdx, l_idx, exported, env, pdfs, lastCall >>
    /\ layersFrame

\* lines 88-93
HideOtherLayers ==
    /\ mPc = "hide"
    /\ layers' = hideOthers(layers, Lyr(mRasters[mIdx]))
    /\ l_idx' = lastNamed(layers, Lyr(mRasters[mIdx]))
    /\ mPc' = "symbology"
    /\ UNCHANGED << savedLayers, mRasters, mIdx, exported, env, pdfs, lastCall, raised >>
    /\ layersFrame

\* lines 95-108: the symbology is set and l.visible = True
ShowRasterLayer ==
    /\ mPc = "symbology"
    /\ layers' = [layers EXCEPT ![l_idx].visible = TRUE]
    /\ mPc' = "export"
    /\ UNCHANGED << savedLayers, mRasters, mIdx, l_idx, exported, env, pdfs,
                    lastCall, raised >>
    /\ layersFrame

\* lines 110-142: the layout is set up and exported to the pdf
ExportToPDF ==
    /\ mPc = "export"
    /\ pdfs' = pdfs \cup { << output_folder, mRasters[mIdx], "NC_Dist.pdf" >> }
    /\ exported' = Append(exported, [raster |-> mRasters[mIdx],
                                    visible |-> VisibleNames(layers)])
    /\ mPc' = "exported"
    /\ UNCHANGED << savedLayers, layers, mRasters, mIdx, l_idx, env, lastCall, raised >>
    /\ layersFrame

\* line 145: l.visible = False
HideRasterLayer ==
    /\ mPc = "exported"
    /\ layers' = [layers EXCEPT ![l_idx].visible = FALSE]
    /\ mIdx' = mIdx + 1
    /\ mPc' = "loop"
    /\ UNCHANGED << savedLayers, mRasters, l_idx, exported, env, pdfs, lastCall, raised >>
    /\ layersFrame

\* lines 146-148: overwriteOutput is reset and the project saved
SaveProject ==
    /\ mPc = "loop"
    /\ mIdx > Len(mRasters)
    /\ env' = [env EXCEPT !.overwriteOutput = FALSE]
    /\ savedLayers' = layers
    /\ layers' = << >>
    /\ mPc' = "idle"
    /\ UNCHANGED << mRasters, mIdx, l_idx, exported, pdfs, lastCall, raised >>
    /\ layersFrame

\* the call is stopped between two steps: the project is not saved
InterruptMaps ==
    /\ mPc # "idle"
    /\ raised' = "KeyboardInterrupt"
    /\ layers' = << >>
    /\ mPc' = "idle"
    /\ UNCHANGED << savedLayers, mRasters, mIdx, l_idx, exported, env, pdfs, lastCall >>
    /\ layersFrame

\* between two calls the user shows or hides a layer in the project and saves
ToggleVisible ==
    /\ mPc = "idle"
    /\ \E k \in 1..Len(savedLayers) :
          savedLayers' = [savedLayers EXCEPT ![k].visible = ~@]
    /\ lastCall' = "none"
    /\ UNCHANGED << layers, mPc, mRasters, mIdx, l_idx, exported, env, pdfs, raised >>
    /\ layersFrame

InitLayers ==
    /\ Fresh
    /\ projectExists = TRUE
    /\ cmpFileDict = << >>
    /\ cmpParams = << >>
    /\ dataPathExists = TRUE
    /\ wspaceExists = TRUE
    /\ species_df = << Flicker, FlickerYS >>
    /\ fwFileExists = TRUE
    /\ grid = parameter_grid
    /\ combos = << >>

NextLayers ==
    \/ createMapAndExportStart
    \/ InsertRasterLayer
    \/ HideOtherLayers
    \/ ShowRasterLayer
    \/ ExportToPDF
    \/ HideRasterLayer
    \/ SaveProject
    \/ InterruptMaps
    \/ ToggleVisible

SpecLayers == InitLayers /\ [][NextLayers]_vars

\* ------------------------------------------------------------------ claims
\* the entries of a species' own log file, as Python reads them
Entries(file) == IF file.exists THEN JsonLoad(file.text) ELSE << >>

\* the combination has an entry in the file: all seven parameters are equal
LoggedIn(file, combination) ==
    \E k \in 1..Len(Entries(file)) :
        \A j \in 1..Len(GridKeys) : Entries(file)[k][GridKeys[j]] = combination[j]

\* the grid search of the current species is under way
InGridSearch == pc \in { "grid", "logged" }

\* this step trained a model (runMaxEnt was called with output = False)
TrainStep == pc = "grid" /\ pc' = "logged"

\* this step made the final output run (runMaxEnt with output = True)
FinalStep == pc = "grid" /\ pc' = "species"

\* this step began the grid search of a species
BeginStep == pc = "species" /\ pc' = "grid"

MaxOf(S) == CHOOSE m \in S : \A x \in S : x <= m

TrainedF1s == { trained[k][2] : k \in 1..Len(trained) }

\* C1: a combination that already has an entry in the species' training log
\* is never trained again: whenever runMaxEnt is called for a combination in
\* the grid search, the species' log holds no entry for that combination.
C1_LoggedCombinationIsSkipped ==
    [][ TrainStep => ~LoggedIn(logFile[s], all_combinations[i]) ]_vars

\* a run has skipped a combination that was in the species' log when the
\* run reached the species, logged there by an earlier run
C1_Witness ==
    /\ InGridSearch
    /\ \E c \in skipped : LoggedIn(logAtStart, c) /\ LoggedIn(logFile[s], c)

\* C2: starting with no log and no pickle for the species, once the grid
\* search loop is over and some trained combination scored F1 > 0, the pickle
\* holds a trained combination whose F1 is the maximum of the F1 scores of
\* the combinations trained, together with that F1.
C2_FreshChampionIsMax ==
    ( /\ pc = "grid"
      /\ i > Len(all_combinations)
      /\ ~logAtStart.exists
      /\ ~cacheAtStart.exists
      /\ \E f \in TrainedF1s : f > 0 )
    => /\ cacheFile[s].exists
       /\ cacheFile[s].f1 = MaxOf(TrainedF1s)
       /\ \E k \in 1..Len(trained) :
              trained[k] = << cacheFile[s].combination, cacheFile[s].f1 >>

\* every combination was trained, the last one is not the best
C2_Witness ==
    /\ pc = "grid"
    /\ i > Len(all_combinations)
    /\ ~logAtStart.exists
    /\ ~cacheAtStart.exists
    /\ Len(trained) = Len(all_combinations)
    /\ trained[Len(trained)][2] < MaxOf(TrainedF1s)
    /\ trained[Len(trained)][2] > 0
    /\ cacheFile[s].f1 = MaxOf(TrainedF1s)

\* the species whose final output run was the last step of this run
JustFinished ==
    /\ pc = "species"
    /\ spIdx > 1
    /\ lastStep = "FinalOutput"

prev == formatted_name(species_df[spIdx - 1])

\* C3: a pickle that exists when the species' grid search starts is replaced
\* only by a combination trained in this run with a strictly greater F1; if
\* no trained combination beats it, ties included, the file is unchanged and
\* the final output run uses the cached model.
C3_CachedChampionKept ==
    /\ (InGridSearch /\ cacheAtStart.exists /\ cacheFile[s] # cacheAtStart)
          => /\ cacheFile[s].f1 > cacheAtStart.f1
             /\ \E k \in 1..Len(trained) :
                    trained[k] = << cacheFile[s].combination, cacheFile[s].f1 >>
    /\ ( /\ JustFinished
         /\ cacheAtStart.exists
         /\ \A f \in TrainedF1s : f <= cacheAtStart.f1 )
          => /\ cacheFile[prev] = cacheAtStart
             /\ finalRun[prev].params = cacheAtStart.params

\* a run trained a combination that ties with the cached champion, and the
\* final output run was made with the cached model
C3_Witness ==
    /\ JustFinished
    /\ cacheAtStart.exists
    /\ \E f \in TrainedF1s : f = cacheAtStart.f1
    /\ \A f \in TrainedF1s : f <= cacheAtStart.f1
    /\ finalRun[prev].params = cacheAtStart.params

\* C4: checkModelLogs returns True if a model with the given parameters is
\* already logged for the species, and False otherwise, at every call the
\* grid search makes.
C4_TrueIffLogged ==
    (pc = "grid" /\ i <= Len(all_combinations))
        => checkModelLogs(logFile, zipParams(all_combinations[i]), s)
               = LoggedIn(logFile[s], all_combinations[i])

FinalOutputs == { "NC_Trained_Features", "NC_Trained_Raster",
                  "NC_Response_Curve", "NC_Sensitivity_Table" }

\* C5: batchMaxEnt never stops with an error before the final output step
\* of a species, and when it has gone through all species every species has
\* its trained features, trained raster, response curve and sensitivity
\* table in the geodatabase.
C5_AlwaysReachesFinalOutput ==
    /\ (dataPathExists /\ wspaceExists) => raised # "FileNotFoundError"
    /\ (pc = "species" /\ spIdx > Len(species_df))
          => \A k \in 1..Len(species_df) : \A o \in FinalOutputs :
                 << formatted_name(species_df[k]), o >> \in gdb

\* C6: the final run of a species is made with presence_probability_cutoff
\* equal to the champion's best cutoff rounded to 2 decimals.
C6_FinalRunUsesBestCutoff ==
    \A n \in FormattedNames :
        finalRun[n].done
            => /\ cacheFile[n].exists
               /\ finalRun[n].presence_probability_cutoff
                      = round2(cacheFile[n].cutoff)

\* the grid lists both NO_THINNING and THINNING
BothThinnings(g) ==
    /\ Contains(g["spatial_thinning"], "NO_THINNING")
    /\ Contains(g["spatial_thinning"], "THINNING")

\* C7: for a grid listing both thinning settings getAllCombos returns
\* B*W*K*L*(1 + I*D) tuples without duplicates: one per (basis, weight, knots,
\* link) with NO_THINNING and None for iterations and distance band, plus the
\* cartesian product of the lists with THINNING; zipped with the grid's keys,
\* every key gets a value of its own list or None.
C7_AllCombosOnce ==
    (combos # << >> /\ BothThinnings(grid)) =>
        LET I == Range(grid["number_of_iterations"])
            B == Range(grid["basis_expansion_functions"])
            W == Range(grid["relative_weight"])
            K == Range(grid["number_knots"])
            L == Range(grid["link_function"])
            D == Range(grid["thinning_distance_band"])
        IN  /\ Len(combos) = Cardinality(B) * Cardinality(W) * Cardinality(K)
                               * Cardinality(L)
                               * (1 + Cardinality(I) * Cardinality(D))
            /\ \A a, b \in 1..Len(combos) : a # b => combos[a] # combos[b]
            /\ Range(combos) =
                 { << None, b, w, k, "NO_THINNING", l, None >> :
                      b \in B, w \in W, k \in K, l \in L }
                 \cup
                 { << it, b, w, k, "THINNING", l, d >> :
                      it \in I, b \in B, w \in W, k \in K, l \in L, d \in D }
            /\ \A c \in Range(combos) : \A key \in Range(GridKeys) :
                   \/ zipParams(c)[key] = None
                   \/ zipParams(c)[key] \in Range(grid[key])

\* getAllCombos was called on a grid with both settings and several values
C7_Witness ==
    /\ combos # << >>
    /\ BothThinnings(grid)
    /\ Len(grid["number_of_iterations"]) = 2
    /\ Len(grid["thinning_distance_band"]) = 2
    /\ Len(grid["number_knots"]) = 2
    /\ Len(combos) >= 10

\* C8: while <species>_NC_Trained_Features is in the geodatabase, no step of
\* batchMaxEnt trains a model for the species, makes its final output run or
\* changes its training log or its pickle file.
C8_ModelledSpeciesUntouched ==
    [][ \A n \in FormattedNames :
          << n, "NC_Trained_Features" >> \in gdb
            => /\ logFile'[n] = logFile[n]
               /\ cacheFile'[n] = cacheFile[n]
               /\ finalRun'[n] = finalRun[n]
               /\ ~((TrainStep \/ FinalStep \/ BeginStep) /\ s = n) ]_vars

\* this run has passed over a species that earlier runs had modelled
C8_Witness ==
    /\ pc = "species"
    /\ spIdx > 1
    /\ << prev, "NC_Trained_Features" >> \in gdb
    /\ lastStep = "SkipSpecies"
    /\ finalRun[prev].done
    /\ logFile[prev].exists

\* C9: logModel creates the file if it is missing and appends: afterwards the
\* file holds the entries it held before (none if it was missing), unchanged
\* and in order, followed by one new entry equal to params.
C9_LogModelAppends ==
    [][ TrainStep
          => /\ logFile'[s].exists
             /\ JsonLoad(logFile'[s].text)
                    = Append(Entries(logFile[s]), cur'.params) ]_vars

\* the log was created in this run and a second entry appended to it
C9_Witness ==
    /\ pc = "logged"
    /\ ~logAtStart.exists
    /\ Len(Entries(logFile[s])) = 2
    /\ Entries(logFile[s])[2] = cur.params
    /\ Entries(logFile[s])[1] # cur.params

\* arcpy.env before any function has run
InitialEnv == [workspace |-> FALSE, overwriteOutput |-> FALSE, cellSize |-> "MAXOF"]

\* C10: when data_path or wspace does not exist, every call of batchMaxEnt,
\* getWeatherData, getDEMData, getLandCoverData, getNCBoundary and
\* batchBirdProcessing raises FileNotFoundError, and nothing is created,
\* downloaded, set in the environment or changed in the geodatabase.
C10_PathChecksFirst ==
    (~dataPathExists \/ ~wspaceExists)
        => /\ lastCall # "none" => raised = "FileNotFoundError"
           /\ dirs = { }
           /\ downloads = { }
           /\ env = InitialEnv
           /\ gdb = { }
           /\ pc = "idle"

\* getWeatherData was called with a data path but no workspace
C10_Witness ==
    /\ dataPathExists
    /\ ~wspaceExists
    /\ lastCall = "getWeatherData"
    /\ raised = "FileNotFoundError"

\* the time frame is read from the url in this step
DownloadStep(tf) == tf \in fetched' /\ tf \notin fetched

\* C11: getFeedWatcherData never downloads what it has cached: a time frame
\* is read from the url only when neither the final file nor the time
\* frame's gz file exists, and a time frame whose gz file exists (saved by
\* an earlier, possibly interrupted, run) is read from that file.
C11_NoRedownload ==
    [][ /\ \A tf \in Range(tfs) :
              DownloadStep(tf) => ~fwFileExists /\ ~gzFiles[tf].exists
        /\ (fwPc = "loop" /\ tfIdx' = tfIdx + 1 /\ gzFiles[tfs[tfIdx]].exists)
              => /\ fetched' = fetched
                 /\ df_lis' = Append(df_lis, read_csv(gzFiles[tfs[tfIdx]].text))
      ]_vars

\* a call that found the first time frame saved by an interrupted run, read
\* it from disk, downloaded the second one and returned
C11_Witness ==
    /\ fwPc = "idle"
    /\ fwFileExists
    /\ fromDisk = { tfs[1] }
    /\ fetched = { tfs[2] }
    /\ Len(out) > 0

\* C12: every record of the dataframe getFeedWatcherData returns has a date
\* whose year lies in [min_year, max_year], also when files saved earlier
\* are found on disk.
C12_RecordsInYearRange ==
    fwPc = "idle"
        => \A k \in 1..Len(out) :
              /\ out[k].date[1] >= fwArgs.min_year
              /\ out[k].date[1] <= fwArgs.max_year

\* the row passes the four filters of the claim
Passes(r, codes) ==
    /\ r.valid = 1
    /\ r.plus_code # 1
    /\ r.species_code \in { birds[k].species_code : k \in 1..Len(birds) }
    /\ r.subnational1_code \in Range(codes)

\* the output row o is the input row r
SameRow(o, r) ==
    /\ o.species_code = r.species_code
    /\ o.how_many = r.how_many
    /\ o.latitude = r.latitude
    /\ o.longitude = r.longitude
    /\ o.subnational1_code = r.subnational1_code
    /\ o.date = << r.year, r.month, r.day >>

\* C13: given a list of codes, clean_fw_data returns exactly the input rows
\* that are valid, have no plus_code, a species of birds and a code of the
\* list, with the seven output columns, sorted by date and then species_name.
C13_CleanFwData ==
    lastCall = "clean_fw_data"
        => /\ \A k \in 1..Len(cleaned) :
                 /\ DOMAIN cleaned[k] = out_names
                 /\ \E j \in 1..Len(data) :
                       /\ Passes(data[j], sub_national_code)
                       /\ SameRow(cleaned[k], data[j])
                       /\ \E b \in Range(birds) :
                             /\ b.species_code = data[j].species_code
                             /\ b.species_name = cleaned[k].species_name
           /\ \A j \in 1..Len(data) :
                 Passes(data[j], sub_national_code)
                     => Cardinality({ k \in 1..Len(cleaned) : SameRow(cleaned[k], data[j]) })
                          = Cardinality({ k \in 1..Len(data) : data[k] = data[j] })
           /\ Len(cleaned)
                 = Cardinality({ j \in 1..Len(data) : Passes(data[j], sub_national_code) })
           /\ \A k \in 1..(Len(cleaned) - 1) :
                 \/ DateBefore(cleaned[k].date, cleaned[k + 1].date)
                 \/ /\ cleaned[k].date = cleaned[k + 1].date
                    /\ NameRank(cleaned[k].species_name)
                          <= NameRank(cleaned[k + 1].species_name)

\* two rows went in, the one with a plus_code was dropped and the other
\* one returned
C13_Witness ==
    /\ lastCall = "clean_fw_data"
    /\ Len(data) = 2
    /\ Len(cleaned) = 1
    /\ \E j \in 1..2 : data[j].plus_code = 1 /\ data[j].valid = 1
    /\ \E j \in 1..2 : SameRow(cleaned[1], data[j])

\* every archive has been extracted
AllExtracted == \A k \in 1..Len(archives) : dwnld_path(archives[k]) \in dirs

SaveStep(var) ==
    /\ wPc = "process"
    /\ wOp \in 1..6
    /\ wOp' = wOp + 1
    /\ vars3[wIdx] = var

\* C15: when getWeatherData returns, its result names the average
\* precipitation, minimum temperature and maximum temperature rasters, these
\* are in the workspace, and none of the intermediate rasters the call saved
\* is; no raster is saved for a variable whose final raster exists.
C15_FinalRastersOnly ==
    [][ /\ (wResult' # << >> /\ wPc' = "idle")
              => /\ wResult' = << "avgPrecip_all_years", "minTemp_all_years",
                                  "maxTemp_all_years" >>
                 /\ \A k \in 1..Len(wResult') : Item(wResult'[k]) \in gdb'
                 /\ \A r \in wCreated' : r \notin WeatherRasters => r \notin gdb'
        /\ \A k \in 1..Len(vars3) :
              SaveStep(vars3[k]) => Item(raster(vars3[k])) \notin gdb
      ]_vars

\* a call that found the precipitation raster saved by an interrupted run,
\* processed the two temperature variables and returned
C15_Witness ==
    /\ wPc = "idle"
    /\ wResult # << >>
    /\ Item("avgPrecip_all_years") \notin wCreated
    /\ Item("maxTemp_all_years") \in wCreated
    /\ Item("minTemp_all_years") \in wCreated
    /\ input_4km_proj("tmax") \in wCreated


\* the pdf files outputMaps is to export for the species of species_df that
\* have a trained raster
Mapped == { n \in FormattedNames :
              /\ << n, "NC_Trained_Raster" >> \in gdb
              /\ \E k \in 1..Len(species_df) : formatted_name(species_df[k]) = n }

\* C16: outputMaps exports the map pdfs into the folder passed as its
\* output_folder argument.
C16_PdfsInOutputFolder ==
    (lastCall = "outputMaps" /\ raised = "none")
        => \A n \in Mapped : << output_folder, n, "NC_Dist.pdf" >> \in pdfs

\* the feature class is created in this step of batchBirdProcessing
CreatedNow(fc) == Len(fcCreated') = Len(fcCreated) + 1 /\ fcCreated'[Len(fcCreated')] = fc

\* how often the running call has created the feature class
TimesCreated(created, fc) == Cardinality({ k \in 1..Len(created) : created[k] = fc })

\* C17: batchBirdProcessing creates the base feature classes only if
\* <base_fc>_NC is not in existing_fcs and a species' feature class only
\* if its name is not in existing_fcs; when it returns, each species of
\* fw_df missing from existing_fcs has been created exactly once, the others
\* not at all, and the intermediate feature classes it created are deleted.
C17_SkipsExistingFcs ==
    [][ /\ \A k \in 1..Len(base_created) :
              CreatedNow(base_created[k]) => base_fc_NC \notin existing_fcs
        /\ \A n \in FormattedNames :
              CreatedNow(fc_name(n)) => fc_name(n) \notin existing_fcs
        /\ (bPc = "species" /\ bPc' = "idle" /\ raised' = "none")
              => /\ \A k \in 1..Len(fw_species) :
                       LET fc == fc_name(formatted_name(fw_species[k]))
                       IN  IF fc \in existing_fcs
                           THEN TimesCreated(fcCreated', fc) = 0
                           ELSE TimesCreated(fcCreated', fc) = 1 /\ fc \in gdb'
                 /\ base_fc_NC \notin existing_fcs
                       => /\ TimesCreated(fcCreated', base_fc_NC) = 1
                          /\ base_fc_NC \in gdb'
                          /\ base_fc \notin gdb'
                          /\ base_fc_projected \notin gdb'
                 /\ base_fc_NC \in existing_fcs
                       => \A k \in 1..Len(base_created) :
                             TimesCreated(fcCreated', base_created[k]) = 0
      ]_vars

\* a call that found the base feature class and the first species listed,
\* created the feature class of the second species alone and returned
C17_Witness ==
    /\ lastCall = "batchBirdProcessing"
    /\ bPc = "idle"
    /\ raised = "none"
    /\ Len(fw_species) = 2
    /\ fc_name(formatted_name(fw_species[1])) \in existing_fcs
    /\ fcCreated = << fc_name(formatted_name(fw_species[2])) >>


\* the order the pipeline is described in, and a call's place in it
PipelineOrder ==
    << "getNCBoundary", "getFeedWatcherData", "batchBirdProcessing",
       "getLandCoverData", "getDEMData", "getWeatherData", "batchMaxEnt",
       "outputMaps" >>

Place(f) ==
    IF f = "none" THEN 0
    ELSE CHOOSE k \in 1..Len(PipelineOrder) : PipelineOrder[k] = f

\* the feature classes of the species and the five explanatory rasters
ModelInputs ==
    { fc_name(formatted_name(species_df[k])) : k \in 1..Len(species_df) }
        \cup { Item("nc_nlcd2019"), Item("nc250") } \cup WeatherRasters

\* C18: in a run of the main script every call is the one that follows the
\* call before it in the order boundary, FeederWatch, species feature
\* classes, land cover, DEM, weather, batchMaxEnt, map export; batchMaxEnt is
\* called only when the species' feature classes and the five explanatory
\* rasters are in the workspace, and outputMaps only when batchMaxEnt has
\* returned.
C18_PipelineOrder ==
    [][ (lastCall' # lastCall /\ lastCall' # "none") =>
            /\ Place(lastCall') = Place(lastCall) + 1
            /\ lastCall' = "batchMaxEnt" => ModelInputs \subseteq gdb
            /\ lastCall' = "outputMaps" =>
                   lastCall = "batchMaxEnt" /\ pc = "idle" /\ raised = "none"
      ]_vars

\* a run of the script reached the map export and exported a map
C18_Witness ==
    /\ lastCall = "outputMaps"
    /\ raised = "none"
    /\ pdfs # { }
    /\ ModelInputs \subseteq gdb


\* C19: checkModelParams returns True exactly when some logged entry has,
\* f1 and cutoff aside, the names of params and no others, with equal values
\* for all of them; it returns False when params has a name the entry lacks.
C19_SameNamesAndValues ==
    lastCall = "checkModelParams" =>
        ((cmpResult = "True") <=>
            \E n \in 1..Len(cmpFileDict) :
                /\ (DOMAIN cmpFileDict[n]) \ NumericKeys = DOMAIN cmpParams
                /\ \A key \in DOMAIN cmpParams : cmpFileDict[n][key] = cmpParams[key])


\* the log directory with the files of every species but the given one removed
OwnLogs(log_dir, species) ==
    [n \in DOMAIN log_dir |-> IF n = species THEN log_dir[n] ELSE NoFile]

\* C20: whether the grid search trains or skips a combination for a species
\* depends only on that species' own log file: the answer of checkModelLogs
\* is the one it gives when the log files of all other species are absent,
\* also for Northern_Flicker and Northern_Flicker_Yellow_shafted.
C20_LogsIsolatedPerSpecies ==
    (pc = "grid" /\ i <= Len(all_combinations))
        => checkModelLogs(logFile, zipParams(all_combinations[i]), s)
               = checkModelLogs(OwnLogs(logFile, s), zipParams(all_combinations[i]), s)


\* the F1 scores recorded in a log file
LoggedF1s(file) == { Entries(file)[k].f1 : k \in 1..Len(Entries(file)) }

\* C21: when a run of batchMaxEnt starts, wherever an earlier run was
\* interrupted, the F1 stored in a species' cached best-model file, if the
\* file is there, is the greatest F1 recorded in the species' training log:
\* no logged combination has a higher F1 than the cached champion.
C21_CacheHoldsLogMaximum ==
    (lastStep = "batchMaxEnt" /\ raised = "none") =>
        \A n \in FormattedNames :
            cacheFile[n].exists =>
                /\ cacheFile[n].f1 \in LoggedF1s(logFile[n])
                /\ \A f \in LoggedF1s(logFile[n]) : f <= cacheFile[n].f1


\* batchMaxEnt is interrupted in this step
LogInterrupted == pc # "idle" /\ pc' = "idle" /\ raised' = "KeyboardInterrupt"

\* the entries logModel had written in full to a species' log before the step
LoggedBefore(n) ==
    IF pc = "writing" /\ n = s THEN SubSeq(pending, 1, Len(pending) - 1)
    ELSE Entries(logFile[n])

\* C22: an interruption of batchMaxEnt at any point, the middle of logModel
\* included, leaves every species' log file a readable JSON list that holds
\* every entry logged before the interruption.
C22_LogSurvivesInterruption ==
    [][ LogInterrupted =>
            \A n \in FormattedNames :
                /\ n \notin logTorn'
                /\ \A k \in 1..Len(LoggedBefore(n)) :
                       \E j \in 1..Len(Entries(logFile'[n])) :
                           Entries(logFile'[n])[j] = LoggedBefore(n)[k]
      ]_vars


\* the numerators of row k of the table read, in units of 1 / MaxRate
Tp(k) == sensTable[k].TP.n
Fp(k) == sensTable[k].FP.n
Rc(k) == sensTable[k].recall.n

\* C23: for every row, precision is TP / (TP + FP), and -inf when
\* TP + FP = 0; f1 is 2 * P * recall / (P + recall) with P the precision,
\* and -inf when TP + FP = 0 or P + recall = 0; the row taken as the best
\* cutoff is not one scored -inf when some row has a finite f1.
C23_ScoresAndBestCutoff ==
    /\ \A k \in 1..Len(scoreDf) :
          /\ IF Tp(k) + Fp(k) = 0
             THEN scoreDf[k].precision = minus_inf
             ELSE /\ ~IsInf(scoreDf[k].precision)
                  /\ scoreDf[k].precision.n * (Tp(k) + Fp(k))
                       = Tp(k) * scoreDf[k].precision.d
          /\ IF Tp(k) + Fp(k) = 0 \/ (Tp(k) = 0 /\ Rc(k) = 0)
             THEN scoreDf[k].f1 = minus_inf
             ELSE /\ ~IsInf(scoreDf[k].f1)
                  /\ scoreDf[k].f1.n * (Tp(k) * MaxRate + Rc(k) * (Tp(k) + Fp(k)))
                       = 2 * Tp(k) * Rc(k) * scoreDf[k].f1.d
    /\ (lastCall = "SelectCutoff" /\ \E k \in 1..Len(scoreDf) : ~IsInf(scoreDf[k].f1))
          => /\ ~IsInf(scoreDf[bestRow.max_f1_index].f1)
             /\ ~IsInf(bestRow.f1)
             /\ bestRow.cutoff = scoreDf[bestRow.max_f1_index].cutoff
             /\ \A k \in 1..Len(scoreDf) : Leq(scoreDf[k].f1, bestRow.f1)

\* the first row is scored -inf by both kinds of zero division in the table,
\* a later row has a positive f1, and the best cutoff is the later row's
C23_Witness ==
    /\ lastCall = "SelectCutoff"
    /\ IsInf(scoreDf[1].f1)
    /\ \E k \in 1..Len(scoreDf) : ~IsInf(scoreDf[k].f1) /\ scoreDf[k].f1.n > 0
    /\ bestRow.max_f1_index > 1
    /\ Tp(1) = 0 /\ Fp(1) > 0 /\ Rc(1) = 0


\* createMapAndExport has returned
MapsReturned == lastCall = "createMapAndExport" /\ mPc = "idle" /\ raised = "none"

\* C24: at every pdf export the layer of the raster exported is visible and
\* every other layer but the three basemap layers is hidden; when
\* createMapAndExport returns, one pdf was exported for each raster of
\* brd_rasters and no other, every raster layer it added is hidden, and
\* overwriteOutput is False.
C24_OnlyRasterLayerVisible ==
    /\ \A k \in 1..Len(exported) :
          /\ Lyr(exported[k].raster) \in exported[k].visible
          /\ exported[k].visible \subseteq Basemaps \cup { Lyr(exported[k].raster) }
    /\ MapsReturned =>
          /\ [k \in 1..Len(exported) |-> exported[k].raster] = mRasters
          /\ \A k \in 1..Len(savedLayers) :
                (\E j \in 1..Len(mRasters) : savedLayers[k].name = Lyr(mRasters[j]))
                    => ~savedLayers[k].visible
          /\ ~env.overwriteOutput

\* a call returned after exporting two rasters, over a project in which the
\* layer of an earlier call had been made visible again
C24_Witness ==
    /\ MapsReturned
    /\ Len(mRasters) = 2
    /\ Len(exported) = 2
    /\ Len(savedLayers) = Len(DefaultMap) + 2
    /\ \E k \in 1..Len(savedLayers) :
          savedLayers[k].name \in Basemaps /\ ~savedLayers[k].visible

====
